---- MODULE Spec2Model ----
(***************************************************************************)
(* The Resilient Gateway of cybersentinel: the in-memory Domain Store      *)
(* (server/storage.ts, class MemStorage) and the Express handlers that     *)
(* forward to the remote analysis service and fall back to the store       *)
(* (server/routes.ts, registerRoutes).                                     *)
(*                                                                         *)
(* A handler runs from the arrival of its request to its `await` of the    *)
(* outbound call in one step (the ...Start actions), and from the          *)
(* completion of the outbound call to its response in one step (the ...Ok  *)
(* and ...Fail actions): Node runs handler code between two suspension     *)
(* points without interleaving.                                            *)
(*                                                                         *)
(* JavaScript values: `undefined` and `null` are the strings "undefined"   *)
(* and "null"; a template literal is the concatenation of its pieces.      *)
(***************************************************************************)
EXTENDS Integers, Sequences, FiniteSets, TLC

VARIABLES
    alerts,          \* MemStorage.alerts
    alertIdCounter,  \* MemStorage.alertIdCounter
    cronJobs,        \* MemStorage.cronJobs
    nodes,           \* MemStorage.nodes
    gateways,        \* MemStorage.gateways
    cachedApiKey,    \* _cachedApiKey
    envApiKey,       \* process.env.APP_API_KEY
    remoteKey,       \* the credential the remote service currently accepts
    now,             \* Date.now(), in ms
    reqs,            \* the in-flight requests, one per connection
    lastResp,        \* the response sent last, with the request it answers
    received,        \* history: the number of requests received
    inserted,        \* history: every entry addAlert returned, in call order
    rotatedTo,       \* history: the credential a rotation issued, until the next outbound call
    cronTrace        \* history: the store operations on the cron collection, in call order

vars == <<alerts, alertIdCounter, cronJobs, nodes, gateways, cachedApiKey, envApiKey,
          remoteKey, now, reqs, lastResp, received, inserted, rotatedTo, cronTrace>>

fleetVars == <<nodes, gateways>>
storeVars == <<alerts, alertIdCounter, cronJobs, fleetVars>>
keyVars == <<cachedApiKey, envApiKey, remoteKey, rotatedTo>>

\* ------------------------------------------------------------------ bounds
Slots == {1, 2}      \* connections that can hold a request in flight
CapMargin == 1       \* the remote service comes back this many entries before the cap
CapExtra == 3        \* ingests issued beyond the cap
MaxIngest == 3       \* ingests issued in IngestSpec
MaxCronReqs == 4     \* cron requests issued in CronSpec
MaxNow == 1          \* clock ticks
MaxKeyReqs == 3      \* requests issued in KeySpec
MaxFwdReqs == 2      \* requests issued in FwdSpec
MaxTermReqs == 3     \* requests issued in TermSpec
MaxStoreCalls == 3   \* requests and direct calls issued in StoreSpec
MaxClientReqs == 3   \* requests issued in ClientSpec
CapReads == 1        \* GET alerts requests issued in CapSpec

\* ------------------------------------------------------- program constants
AlertCap == 500
HourMs == 3600000
ExcerptLen == 200

\* ------------------------------------------------------------ JS helpers
Undefined == "undefined"
Null == "null"

\* an absent request, call or response body
NoBody == [none |-> TRUE]

\* JavaScript truthiness of a string-or-undefined-or-null value: `!x`
Falsy(x) == x \in {Undefined, Null, ""}

\* a || b
Or(a, b) == IF Falsy(a) THEN b ELSE a

\* a ?? b
Nullish(a, b) == IF a \in {Undefined, Null} THEN b ELSE a

\* new Date(ms).toISOString()
toISOString(ms) == "T" \o ToString(ms) \o "Z"

\* Array.prototype.slice(-n)
SliceLast(s, n) == IF Len(s) <= n THEN s ELSE SubSeq(s, Len(s) - n + 1, Len(s))

\* String.prototype.slice(0, n)
SliceFirst(s, n) == IF Len(s) <= n THEN s ELSE SubSeq(s, 1, n)

\* [...s].reverse()
Reverse(s) == [i \in 1..Len(s) |-> s[Len(s) + 1 - i]]

\* String.prototype.startsWith
StartsWith(str, prefix) ==
    Len(str) >= Len(prefix) /\ SubSeq(str, 1, Len(prefix)) = prefix

\* String.prototype.replace(pattern, by) with a string pattern: the first
\* occurrence only
Replace(str, pattern, by) ==
    LET at == {i \in 0..(Len(str) - Len(pattern)) :
                  SubSeq(str, i + 1, i + Len(pattern)) = pattern}
    IN  IF at = {} THEN str
        ELSE LET i == CHOOSE j \in at : \A k \in at : j <= k
             IN  SubSeq(str, 1, i) \o by \o SubSeq(str, i + Len(pattern) + 1, Len(str))

\* String.prototype.trim, for strings padded with spaces
RECURSIVE Trim(_)
Trim(str) ==
    IF str = "" THEN str
    ELSE IF SubSeq(str, 1, 1) = " " THEN Trim(SubSeq(str, 2, Len(str)))
    ELSE IF SubSeq(str, Len(str), Len(str)) = " " THEN Trim(SubSeq(str, 1, Len(str) - 1))
    ELSE str

\* obj.key of a parsed JSON object: undefined when the object has no such key
Field(obj, key) == IF key \in DOMAIN obj THEN obj[key] ELSE Undefined

\* the members of JSON.stringify for an object whose values are strings, the
\* members separated by `sep` and key and value by `colon`
RECURSIVE Members(_, _, _, _)
Members(obj, keys, sep, colon) ==
    IF keys = {} THEN ""
    ELSE LET k == CHOOSE key \in keys : TRUE
             rest == keys \ {k}
         IN  "\"" \o k \o "\"" \o colon \o "\"" \o obj[k] \o "\""
             \o (IF rest = {} THEN "" ELSE sep \o Members(obj, rest, sep, colon))

\* JSON.stringify(obj)
JSONstringify(obj) == "{" \o Members(obj, DOMAIN obj, ",", ":") \o "}"

\* JSON.stringify(obj, null, 2)
JSONstringify2(obj) == "{\n  " \o Members(obj, DOMAIN obj, ",\n  ", ": ") \o "\n}"

\* ------------------------------------------------------------ MemStorage
getAlerts(as) == Reverse(as)

\* addAlert keeping the oldest entries on overflow: slice(0, 500)
addAlert_KeepOldest(as, ctr, alert) ==
    LET entry == [id |-> ctr] @@ alert
        pushed == Append(as, entry)
    IN  [alerts |-> SliceFirst(pushed, AlertCap),
         alertIdCounter |-> ctr + 1,
         entry |-> entry]

\* addAlert taking the id from the length of the collection
addAlert_IdFromLength(as, ctr, alert) ==
    LET entry == [id |-> Len(as) + 1] @@ alert
        pushed == Append(as, entry)
    IN  [alerts |-> IF Len(pushed) > AlertCap THEN SliceLast(pushed, AlertCap) ELSE pushed,
         alertIdCounter |-> ctr + 1,
         entry |-> entry]

\* addAlert evicting one entry too many: slice(-499)
addAlert_EvictTwo(as, ctr, alert) ==
    LET entry == [id |-> ctr] @@ alert
        pushed == Append(as, entry)
    IN  [alerts |-> IF Len(pushed) > AlertCap THEN SliceLast(pushed, AlertCap - 1) ELSE pushed,
         alertIdCounter |-> ctr + 1,
         entry |-> entry]

addAlert(as, ctr, alert) ==
    LET entry == [id |-> ctr] @@ alert
        pushed == Append(as, entry)
    IN  [alerts |-> IF Len(pushed) > AlertCap THEN SliceLast(pushed, AlertCap) ELSE pushed,
         alertIdCounter |-> ctr + 1,
         entry |-> entry]

\* getStats counting the enabled gateways instead of the connected ones
getStats_EnabledGateways(as, jobs, ns, gws) ==
    [total_alerts |-> Len(as),
     true_positives |-> Len(SelectSeq(as, LAMBDA a : a.verdict = "True Positive")),
     false_positives |-> Len(SelectSeq(as, LAMBDA a : a.verdict = "False Positive")),
     pending |-> Len(SelectSeq(as, LAMBDA a : a.verdict = "Pending" \/ a.verdict = "Unknown")),
     active_cron_jobs |-> Len(SelectSeq(jobs, LAMBDA j : j.enabled)),
     active_nodes |-> Len(SelectSeq(ns, LAMBDA n : n.status = "online")),
     skills_loaded |-> 0,
     active_gateways |-> Len(SelectSeq(gws, LAMBDA g : g.enabled))]

getStats(as, jobs, ns, gws) ==
    [total_alerts |-> Len(as),
     true_positives |-> Len(SelectSeq(as, LAMBDA a : a.verdict = "True Positive")),
     false_positives |-> Len(SelectSeq(as, LAMBDA a : a.verdict = "False Positive")),
     pending |-> Len(SelectSeq(as, LAMBDA a : a.verdict = "Pending" \/ a.verdict = "Unknown")),
     active_cron_jobs |-> Len(SelectSeq(jobs, LAMBDA j : j.enabled)),
     active_nodes |-> Len(SelectSeq(ns, LAMBDA n : n.status = "online")),
     skills_loaded |-> 0,
     active_gateways |-> Len(SelectSeq(gws, LAMBDA g : g.status = "connected"))]

getCronJobs(jobs) == jobs

\* `uuid8` is randomUUID().slice(0, 8)
addCronJob(jobs, job, uuid8, ms) ==
    LET entry == [id |-> "cron-" \o uuid8,
                  enabled |-> TRUE,
                  last_run |-> Null,
                  next_run |-> toISOString(ms + HourMs)] @@ job
    IN  [cronJobs |-> Append(jobs, entry), entry |-> entry]

\* Array.prototype.find: the index of the first job with this id, 0 when there is none
FindJob(jobs, id) ==
    IF \E i \in 1..Len(jobs) : jobs[i].id = id
    THEN CHOOSE i \in 1..Len(jobs) :
            /\ jobs[i].id = id
            /\ \A k \in 1..(i - 1) : jobs[k].id # id
    ELSE 0

\* toggleCronJob stamping the job with a run time as well
toggleCronJob_Stamp(jobs, id) ==
    LET i == FindJob(jobs, id)
    IN  IF i # 0
        THEN LET job == [jobs[i] EXCEPT !.enabled = ~jobs[i].enabled,
                                        !.last_run = jobs[i].next_run]
             IN  [cronJobs |-> [jobs EXCEPT ![i] = job], found |-> TRUE, job |-> job]
        ELSE [cronJobs |-> jobs, found |-> FALSE, job |-> Null]

\* toggleCronJob enabling the job instead of flipping it
toggleCronJob_Enable(jobs, id) ==
    LET i == FindJob(jobs, id)
    IN  IF i # 0
        THEN LET job == [jobs[i] EXCEPT !.enabled = TRUE]
             IN  [cronJobs |-> [jobs EXCEPT ![i] = job], found |-> TRUE, job |-> job]
        ELSE [cronJobs |-> jobs, found |-> FALSE, job |-> Null]

\* the returned job is Null when no job has the id
toggleCronJob(jobs, id) ==
    LET i == FindJob(jobs, id)
    IN  IF i # 0
        THEN LET job == [jobs[i] EXCEPT !.enabled = ~jobs[i].enabled]
             IN  [cronJobs |-> [jobs EXCEPT ![i] = job], found |-> TRUE, job |-> job]
        ELSE [cronJobs |-> jobs, found |-> FALSE, job |-> Null]

\* deleteCronJob removing only the first job with the id
deleteCronJob_FirstOnly(jobs, id) ==
    LET i == FindJob(jobs, id)
    IN  IF i = 0 THEN jobs ELSE SubSeq(jobs, 1, i - 1) \o SubSeq(jobs, i + 1, Len(jobs))

deleteCronJob(jobs, id) == SelectSeq(jobs, LAMBDA j : j.id # id)

getNodes(ns) == ns

getGateways(gws) == gws

\* Array.prototype.find: the index of the first gateway with this id, 0 when there is none
FindGateway(gws, id) ==
    IF \E i \in 1..Len(gws) : gws[i].id = id
    THEN CHOOSE i \in 1..Len(gws) :
            /\ gws[i].id = id
            /\ \A k \in 1..(i - 1) : gws[k].id # id
    ELSE 0

\* updateGatewayStatus adding a gateway when none has the id
updateGatewayStatus_Upsert(gws, id, status) ==
    LET i == FindGateway(gws, id)
        gw == IF i # 0 THEN [gws[i] EXCEPT !.status = status]
              ELSE [id |-> id, name |-> id, type |-> id, status |-> status,
                    enabled |-> FALSE, last_message |-> Null, messages_sent |-> 0]
    IN  [gateways |-> IF i # 0 THEN [gws EXCEPT ![i] = gw] ELSE Append(gws, gw),
         found |-> TRUE, gw |-> gw]

\* the returned gateway is Null when no gateway has the id
updateGatewayStatus(gws, id, status) ==
    LET i == FindGateway(gws, id)
    IN  IF i # 0
        THEN LET gw == [gws[i] EXCEPT !.status = status]
             IN  [gateways |-> [gws EXCEPT ![i] = gw], found |-> TRUE, gw |-> gw]
        ELSE [gateways |-> gws, found |-> FALSE, gw |-> Null]

\* --------------------------------------------------------- Remote Client
getApiKey(cached, env) ==
    LET c == IF Falsy(cached) THEN Nullish(env, "") ELSE cached
    IN  [_cachedApiKey |-> c, key |-> c]

refreshApiKey == Null

\* The outcomes of one outbound call.  kind "ok": a success status whose body
\* parsed to `data`; kind "status": a non-success status with the response
\* text `text`; kind "conn": fetch rejected.
OkOutcome(data) == [kind |-> "ok", data |-> data, status |-> "200", text |-> ""]
StatusOutcome(status, text) == [kind |-> "status", data |-> Undefined, status |-> status, text |-> text]
ConnOutcome == [kind |-> "conn", data |-> Undefined, status |-> "", text |-> ""]

\* kind "parse": a success status whose body is not JSON, res.json() rejected
ParseOutcome == [kind |-> "parse", data |-> Undefined, status |-> "200", text |-> ""]

\* the message of the SyntaxError of res.json()
SyntaxMessage == "Unexpected token < in JSON at position 0"

\* err.message with the whole response text in the message
ErrMessage_WholeText(out) ==
    IF out.kind = "status"
    THEN "Sentinel API error " \o out.status \o ": " \o out.text
    ELSE IF out.kind = "parse" THEN SyntaxMessage
    ELSE "fetch failed"

\* err.message of the error proxyToSentinel throws
ErrMessage(out) ==
    IF out.kind = "status"
    THEN "Sentinel API error " \o out.status \o ": " \o SliceFirst(out.text, ExcerptLen)
    ELSE IF out.kind = "parse" THEN SyntaxMessage
    ELSE "fetch failed"

\* What `await fetch(...)` gives: a rejection, or a response with its ok flag
\* and status, whose text() gives `text` or rejects (readable FALSE) and whose
\* json() gives `data` or rejects (parses FALSE).
Rejected == [rejected |-> TRUE, ok |-> FALSE, status |-> "", readable |-> FALSE,
             text |-> "", parses |-> FALSE, data |-> NoBody]
Response(ok, status, readable, text, parses, data) ==
    [rejected |-> FALSE, ok |-> ok, status |-> status, readable |-> readable,
     text |-> text, parses |-> parses, data |-> data]

\* proxyToSentinel from the end of `await fetch(...)`: what it returns or throws
proxyToSentinel(fetched) ==
    IF fetched.rejected THEN ConnOutcome
    ELSE IF ~fetched.ok
         THEN StatusOutcome(fetched.status,
                            IF fetched.readable THEN fetched.text ELSE "Unknown error")
    ELSE IF fetched.parses THEN OkOutcome(fetched.data)
    ELSE ParseOutcome

\* ------------------------------------------- the dispatcher of the terminal
\* const { command } = req.body
Command(body) == Field(body, "command")

\* the dispatcher taking every command that starts with "/status" as the
\* health command
Route_PrefixStatus(command) ==
    IF command = Undefined THEN "throws"
    ELSE IF StartsWith(command, "/status") THEN "status"
    ELSE IF StartsWith(command, "/analyze ") THEN "analyze"
    ELSE IF StartsWith(command, "/scan ") THEN "scan"
    ELSE "ask"

\* The branch the dispatcher takes.  `command === "/status"` is false for an
\* undefined command, and command.startsWith then throws a TypeError outside
\* every try block: the promise of the handler rejects ("throws").
Route(command) ==
    IF command = "/status" THEN "status"
    ELSE IF command = Undefined THEN "throws"
    ELSE IF StartsWith(command, "/analyze ") THEN "analyze"
    ELSE IF StartsWith(command, "/scan ") THEN "scan"
    ELSE "ask"

\* the outbound call of the branch
TerminalCall(command) ==
    CASE Route(command) = "status" -> [path |-> "/health", method |-> "GET", body |-> NoBody]
      [] Route(command) = "scan" ->
            [path |-> "/v1/agents/run", method |-> "POST",
             body |-> [squad |-> "red",
                       task |-> "Security scan on target: "
                                \o Trim(Replace(command, "/scan ", ""))]]
      [] Route(command) = "ask" ->
            [path |-> "/v1/agents/run", method |-> "POST",
             body |-> [squad |-> "blue", task |-> command]]

\* ---------------------------------------------- the outbound calls
\* the JavaScript object {}
EmptyObject == <<>>

\* the arguments of proxyToSentinel in the handler `op`, for the request body
\* `body` and the route parameter `id`
Target(op, body, id) ==
    CASE op = "health" -> [path |-> "/health", method |-> "GET", body |-> NoBody]
      [] op = "ingest" -> [path |-> "/v1/ingest", method |-> "POST", body |-> body]
      [] op = "agentsRun" ->
            [path |-> "/v1/agents/run", method |-> "POST",
             body |-> [squad |-> Field(body, "squad"), task |-> Field(body, "task")]]
      [] op = "skills" -> [path |-> "/v1/skills", method |-> "GET", body |-> NoBody]
      [] op = "skillsGenerate" ->
            [path |-> "/v1/skills/generate", method |-> "POST", body |-> body]
      [] op = "cronList" -> [path |-> "/v1/cron", method |-> "GET", body |-> NoBody]
      [] op = "cronAdd" -> [path |-> "/v1/cron", method |-> "POST", body |-> body]
      [] op = "cronToggle" ->
            [path |-> "/v1/cron/" \o id \o "/toggle", method |-> "PATCH",
             body |-> EmptyObject]
      [] op = "cronDelete" ->
            [path |-> "/v1/cron/" \o id, method |-> "DELETE", body |-> EmptyObject]
      [] op = "infra" -> [path |-> "/v1/infra/status", method |-> "GET", body |-> NoBody]
      [] op = "healthPro" -> [path |-> "/v1/health/pro", method |-> "GET", body |-> NoBody]
      [] op = "gateways" ->
            [path |-> "/v1/gateways/status", method |-> "GET", body |-> NoBody]
      [] op = "gatewaysTest" ->
            [path |-> "/v1/gateways/test", method |-> "POST", body |-> body]
      [] op = "settingsGet" -> [path |-> "/v1/settings", method |-> "GET", body |-> NoBody]
      [] op = "settingsPost" -> [path |-> "/v1/settings", method |-> "POST", body |-> body]
      [] op = "onboarding" ->
            [path |-> "/v1/settings/onboarding", method |-> "GET", body |-> NoBody]
      [] op = "onboardingComplete" ->
            [path |-> "/v1/settings/onboarding/complete", method |-> "POST",
             body |-> EmptyObject]
      [] op = "providersModels" ->
            [path |-> "/v1/providers/models", method |-> "GET", body |-> NoBody]
      [] op = "providersIntegrations" ->
            [path |-> "/v1/providers/integrations", method |-> "GET", body |-> NoBody]
      [] op = "providersIntegrationsTest" ->
            [path |-> "/v1/providers/integrations/test", method |-> "POST", body |-> body]
      [] op = "providersSocial" ->
            [path |-> "/v1/providers/social", method |-> "GET", body |-> NoBody]
      [] op = "rotate" ->
            [path |-> "/v1/settings/api-key/rotate", method |-> "POST",
             body |-> EmptyObject]
      [] op = "terminal" -> TerminalCall(Command(body))

\* no outbound call
NoCall == [path |-> "", method |-> "", body |-> NoBody]

\* ---------------------------------------------------------------- requests
\* `calls` counts the outbound calls the request has issued, `call` is the
\* last one
IdleReq == [pc |-> "idle", op |-> "none", body |-> NoBody, id |-> "", key |-> "",
            calls |-> 0, call |-> NoCall]

NoOutcome == [kind |-> "none", data |-> Undefined, status |-> "", text |-> ""]

NoResp == [slot |-> 0, op |-> "none", req |-> IdleReq, out |-> NoOutcome,
           status |-> 0, body |-> NoBody, added |-> <<>>]

Free(s) == reqs[s].pc = "idle"

\* The handler of `op` runs up to its `await fetch(...)`: proxyToSentinel has
\* built the headers, so getApiKey has run.
CallRemote(s, op, body, id) ==
    LET k == getApiKey(cachedApiKey, envApiKey)
    IN  /\ Free(s)
        /\ cachedApiKey' = k._cachedApiKey
        /\ received' = received + 1
        /\ rotatedTo' = Null
        /\ reqs' = [reqs EXCEPT ![s] = [IdleReq EXCEPT !.pc = "awaiting", !.op = op,
                                          !.body = body, !.id = id, !.key = k.key,
                                          !.calls = reqs[s].calls + 1,
                                          !.call = Target(op, body, id)]]

Awaiting(s, op) == reqs[s].pc = "awaiting" /\ reqs[s].op = op

\* res.status(status).json(body) ends the request in slot s, whose outbound
\* call had the outcome `out` and whose handler stored the alerts `added`
Respond(s, out, status, body, added) ==
    /\ lastResp' = [slot |-> s, op |-> reqs[s].op, req |-> reqs[s], out |-> out,
                    status |-> status, body |-> body, added |-> added]
    /\ reqs' = [reqs EXCEPT ![s] = IdleReq]

\* ------------------------------------------------ POST /api/sentinel/ingest
IngestBody(alert_id, source) == [alert_id |-> alert_id, source |-> source, raw_data |-> "x"]

IngestData(status, verdict, risk_level, message, task_id) ==
    [status |-> status, verdict |-> verdict, risk_level |-> risk_level,
     message |-> message, task_id |-> task_id]

\* the try branch letting the remote verdict win over status "queued"
OkAlert_VerdictFirst(body, data, ms) ==
    [alert_id |-> Or(body.alert_id, "ALERT-" \o ToString(ms)),
     verdict |-> Or(data.verdict, IF data.status = "queued" THEN "Pending" ELSE "Unknown"),
     risk_level |-> Or(data.risk_level, "Medium"),
     source |-> Or(body.source, "custom"),
     summary |-> Or(data.message, "Alert submitted"),
     timestamp |-> toISOString(ms),
     task_id |-> data.task_id]

\* the argument of addAlert in the try branch
OkAlert(body, data, ms) ==
    [alert_id |-> Or(body.alert_id, "ALERT-" \o ToString(ms)),
     verdict |-> IF data.status = "queued" THEN "Pending" ELSE Or(data.verdict, "Unknown"),
     risk_level |-> Or(data.risk_level, "Medium"),
     source |-> Or(body.source, "custom"),
     summary |-> Or(data.message, "Alert submitted"),
     timestamp |-> toISOString(ms),
     task_id |-> data.task_id]

\* the catch branch dropping err.message from the summary
ErrAlert_NoReason(body, message, ms) ==
    [alert_id |-> Or(body.alert_id, "ALERT-" \o ToString(ms)),
     verdict |-> "Error",
     risk_level |-> "Unknown",
     source |-> Or(body.source, "custom"),
     summary |-> "Submission error",
     timestamp |-> toISOString(ms),
     task_id |-> Undefined]

\* the catch branch recording every failed submission under the default source
ErrAlert_DefaultSource(body, message, ms) ==
    [alert_id |-> Or(body.alert_id, "ALERT-" \o ToString(ms)),
     verdict |-> "Error",
     risk_level |-> "Unknown",
     source |-> "custom",
     summary |-> "Submission error: " \o message,
     timestamp |-> toISOString(ms),
     task_id |-> Undefined]

\* the argument of addAlert in the catch branch
ErrAlert(body, message, ms) ==
    [alert_id |-> Or(body.alert_id, "ALERT-" \o ToString(ms)),
     verdict |-> "Error",
     risk_level |-> "Unknown",
     source |-> Or(body.source, "custom"),
     summary |-> "Submission error: " \o message,
     timestamp |-> toISOString(ms),
     task_id |-> Undefined]

\* the handler recording the alert before it awaits the outbound call
IngestStart_RecordFirst(s, body) ==
    /\ CallRemote(s, "ingest", body, "")
    /\ LET a == addAlert(alerts, alertIdCounter, ErrAlert(body, "pending", now))
       IN  /\ alerts' = a.alerts
           /\ alertIdCounter' = a.alertIdCounter
           /\ inserted' = Append(inserted, a.entry)
    /\ UNCHANGED <<cronJobs, fleetVars, envApiKey, remoteKey, now, lastResp, cronTrace>>

IngestStart(s, body) ==
    /\ CallRemote(s, "ingest", body, "")
    /\ UNCHANGED <<storeVars, envApiKey, remoteKey, now, lastResp, inserted, cronTrace>>

\* storage.addAlert(alert) called by the request in slot s, then the response
RecordAlert(s, out, alert, status, body) ==
    LET a == addAlert(alerts, alertIdCounter, alert)
    IN  /\ alerts' = a.alerts
        /\ alertIdCounter' = a.alertIdCounter
        /\ inserted' = Append(inserted, a.entry)
        /\ Respond(s, out, status, body, <<a.entry>>)

IngestOk(s, data) ==
    /\ Awaiting(s, "ingest")
    /\ RecordAlert(s, OkOutcome(data), OkAlert(reqs[s].body, data, now), 200, data)
    /\ UNCHANGED <<cronJobs, fleetVars, keyVars, now, received, cronTrace>>

\* the catch branch answering without recording an alert
IngestFail_NoRecord(s, out) ==
    /\ Awaiting(s, "ingest")
    /\ out.kind # "ok"
    /\ Respond(s, out, 500, [error |-> ErrMessage(out)], <<>>)
    /\ UNCHANGED <<storeVars, keyVars, now, received, inserted, cronTrace>>

IngestFail(s, out) ==
    /\ Awaiting(s, "ingest")
    /\ out.kind # "ok"
    /\ RecordAlert(s, out, ErrAlert(reqs[s].body, ErrMessage(out), now), 500,
                   [error |-> ErrMessage(out)])
    /\ UNCHANGED <<cronJobs, fleetVars, keyVars, now, received, cronTrace>>

\* -------------------------------------------------- /api/sentinel/cron
\* a store operation on the cron collection done by a handler at time `now`:
\* the collection before it, what the store returned, what the handler sent
CronOp(op, id, ret, status, body) ==
    [op |-> op, id |-> id, before |-> cronJobs, at |-> now, ret |-> ret,
     status |-> status, body |-> body]

Traced(e) == cronTrace' = Append(cronTrace, e)

\* the try branch answering with the local collection
CronForwarded_Local(s, op, body) ==
    /\ Awaiting(s, op)
    /\ Respond(s, OkOutcome(body), 200, getCronJobs(cronJobs), <<>>)
    /\ UNCHANGED <<storeVars, keyVars, now, received, inserted, cronTrace>>

\* the try branch of every cron handler: res.json(data), the store untouched
CronForwarded(s, op, body) ==
    /\ Awaiting(s, op)
    /\ Respond(s, OkOutcome(body), 200, body, <<>>)
    /\ UNCHANGED <<storeVars, keyVars, now, received, inserted, cronTrace>>

CronStart(s, op, body, id) ==
    /\ CallRemote(s, op, body, id)
    /\ UNCHANGED <<storeVars, envApiKey, remoteKey, now, lastResp, inserted, cronTrace>>

\* GET /api/sentinel/cron
CronListOk(s, data) == CronForwarded(s, "cronList", data)

CronListFail(s, out) ==
    /\ Awaiting(s, "cronList")
    /\ out.kind # "ok"
    /\ LET jobs == getCronJobs(cronJobs)
       IN  /\ Respond(s, out, 200, jobs, <<>>)
           /\ Traced(CronOp("list", "", jobs, 200, jobs))
    /\ UNCHANGED <<storeVars, keyVars, now, received, inserted>>

\* POST /api/sentinel/cron
CronAddOk(s, data) == CronForwarded(s, "cronAdd", data)

CronAddFail(s, out, uuid8) ==
    /\ Awaiting(s, "cronAdd")
    /\ out.kind # "ok"
    /\ LET a == addCronJob(cronJobs, reqs[s].body, uuid8, now)
       IN  /\ cronJobs' = a.cronJobs
           /\ Respond(s, out, 200, a.entry, <<>>)
           /\ Traced(CronOp("add", a.entry.id, a.entry, 200, a.entry))
    /\ UNCHANGED <<alerts, alertIdCounter, fleetVars, keyVars, now, received, inserted>>

\* PATCH /api/sentinel/cron/:id/toggle
CronToggleOk(s, data) == CronForwarded(s, "cronToggle", data)

CronToggleFail(s, out) ==
    /\ Awaiting(s, "cronToggle")
    /\ out.kind # "ok"
    /\ LET t == toggleCronJob(cronJobs, reqs[s].id)
           body == IF t.found THEN t.job ELSE [error |-> "Job not found"]
       IN  /\ cronJobs' = t.cronJobs
           /\ Respond(s, out, 200, body, <<>>)
           /\ Traced(CronOp("toggle", reqs[s].id, t.job, 200, body))
    /\ UNCHANGED <<alerts, alertIdCounter, fleetVars, keyVars, now, received, inserted>>

\* DELETE /api/sentinel/cron/:id
\* the handler removing the local job after the remote deletion too
CronDeleteOk_RemoveLocal(s, data) ==
    /\ Awaiting(s, "cronDelete")
    /\ cronJobs' = deleteCronJob(cronJobs, reqs[s].id)
    /\ Respond(s, OkOutcome(data), 200, [status |-> "deleted"], <<>>)
    /\ UNCHANGED <<alerts, alertIdCounter, fleetVars, keyVars, now, received, inserted,
                   cronTrace>>

CronDeleteOk(s, data) ==
    /\ Awaiting(s, "cronDelete")
    /\ Respond(s, OkOutcome(data), 200, [status |-> "deleted"], <<>>)
    /\ UNCHANGED <<storeVars, keyVars, now, received, inserted, cronTrace>>

CronDeleteFail(s, out) ==
    /\ Awaiting(s, "cronDelete")
    /\ out.kind # "ok"
    /\ cronJobs' = deleteCronJob(cronJobs, reqs[s].id)
    /\ Respond(s, out, 200, [status |-> "deleted"], <<>>)
    /\ Traced(CronOp("delete", reqs[s].id, Undefined, 200, [status |-> "deleted"]))
    /\ UNCHANGED <<alerts, alertIdCounter, fleetVars, keyVars, now, received, inserted>>

\* ------------------------------------------------ GET /api/sentinel/health
HealthOffline ==
    [status |-> "offline", version |-> "1.0.0", architecture |-> "AI-Native Agentic",
     agents |-> <<>>, tools |-> <<>>, learning_mode |-> FALSE, queue_workers |-> 0]

HealthStart(s) ==
    /\ CallRemote(s, "health", NoBody, "")
    /\ UNCHANGED <<storeVars, envApiKey, remoteKey, now, lastResp, inserted, cronTrace>>

HealthOk(s, data) ==
    /\ Awaiting(s, "health")
    /\ Respond(s, OkOutcome(data), 200, data, <<>>)
    /\ UNCHANGED <<storeVars, keyVars, now, received, inserted, cronTrace>>

HealthFail(s, out) ==
    /\ Awaiting(s, "health")
    /\ out.kind # "ok"
    /\ Respond(s, out, 200, HealthOffline, <<>>)
    /\ UNCHANGED <<storeVars, keyVars, now, received, inserted, cronTrace>>

\* ------------------------------------------ POST /api/settings/api-key/rotate
RotateStart(s) ==
    /\ CallRemote(s, "rotate", NoBody, "")
    /\ UNCHANGED <<storeVars, envApiKey, remoteKey, now, lastResp, inserted, cronTrace>>

\* The remote service answered with a success status: it has replaced the
\* credential it accepts by `newKey`.
RotateOk(s, data, newKey) ==
    /\ Awaiting(s, "rotate")
    /\ newKey # remoteKey
    /\ remoteKey' = newKey
    /\ rotatedTo' = newKey
    /\ cachedApiKey' = refreshApiKey
    /\ Respond(s, OkOutcome(data), 200, data, <<>>)
    /\ UNCHANGED <<storeVars, envApiKey, now, received, inserted, cronTrace>>

RotateFail(s, out) ==
    /\ Awaiting(s, "rotate")
    /\ out.kind # "ok"
    /\ Respond(s, out, 200, [status |-> "error", message |-> ErrMessage(out)], <<>>)
    /\ UNCHANGED <<storeVars, keyVars, now, received, inserted, cronTrace>>

\* process.env.APP_API_KEY is assigned, or deleted, while the process runs
ConfigChange(value) ==
    /\ value # envApiKey
    /\ envApiKey' = value
    /\ UNCHANGED <<storeVars, cachedApiKey, remoteKey, rotatedTo, now, reqs, lastResp,
                   received, inserted, cronTrace>>

\* --------------------------------------------------- forwarding handlers
\* The handlers of the shape
\*     try { res.json(await proxyToSentinel(path, method, body)) }
\*     catch (err) { res.json(<default>) }
\* which never touch the store, by the name of their route.
Forwarders ==
    {"agentsRun", "skills", "skillsGenerate", "infra", "healthPro", "gatewaysTest",
     "settingsGet", "settingsPost", "onboarding", "onboardingComplete",
     "providersModels", "providersIntegrations", "providersIntegrationsTest",
     "providersSocial"}

\* what the database fallback of the onboarding handlers finds: no
\* DATABASE_URL, a failed query or no row; the newest row; the inserted row
DbNone == [kind |-> "none"]
DbRow(completed, steps_completed) ==
    [kind |-> "row", completed |-> completed, steps_completed |-> steps_completed]
DbInserted == [kind |-> "inserted"]

Model(name, display_name, status) ==
    [name |-> name, display_name |-> display_name, configured |-> FALSE, status |-> status]

Integration(name, display_name, category) ==
    [name |-> name, display_name |-> display_name, category |-> category, configured |-> FALSE]

\* the body the catch branch of the handler `op` sends; `message` is err.message
Default(op, body, message, db) ==
    CASE op = "agentsRun" ->
            [agent |-> Or(body.squad, "unknown"),
             result |-> "Agent unavailable: " \o message
                        \o ". The CyberSentinel backend may not be running.",
             status |-> "error"]
      [] op = "skills" -> <<>>
      [] op = "skillsGenerate" -> [error |-> message]
      [] op = "infra" ->
            [provider |-> "REPLIT", database |-> "Replit Managed PostgreSQL",
             storage |-> "data", db_connected |-> FALSE]
      [] op = "healthPro" ->
            [status |-> "offline", version |-> "1.0.0", uptime_seconds |-> 0,
             memory_usage_mb |-> 0, queue_depth |-> 0, worker_count |-> 0,
             agents_responsive |-> FALSE, gateways |-> <<>>]
      [] op = "gatewaysTest" ->
            [status |-> "error",
             message |-> "Gateway test failed: " \o message
                         \o ". The CyberSentinel backend may not be running."]
      [] op = "settingsGet" ->
            [ai_models |-> NoBody, social_gateways |-> NoBody, integrations |-> NoBody,
             security |-> NoBody, system |-> NoBody]
      [] op = "settingsPost" -> [status |-> "error", message |-> message]
      [] op = "onboarding" ->
            IF db.kind = "row"
            THEN [completed |-> db.completed,
                  steps_completed |-> IF db.steps_completed = Null THEN <<>>
                                      ELSE db.steps_completed]
            ELSE [completed |-> FALSE, steps_completed |-> <<>>]
      [] op = "onboardingComplete" ->
            IF db.kind = "inserted"
            THEN [status |-> "completed"]
            ELSE [status |-> "error",
                  message |-> "Backend unavailable and no database fallback"]
      [] op = "providersModels" ->
            <<Model("groq", "Groq", "offline"),
              Model("openai", "OpenAI", "not_configured"),
              Model("anthropic", "Anthropic", "not_configured"),
              Model("ollama", "Ollama", "not_configured")>>
      [] op = "providersIntegrations" ->
            <<Integration("splunk", "Splunk SIEM", "siem"),
              Integration("jira", "Jira", "ticketing"),
              Integration("virustotal", "VirusTotal", "threat_intel"),
              Integration("clickup", "ClickUp", "ticketing"),
              Integration("notion", "Notion", "documentation"),
              Integration("hybrid_analysis", "Hybrid Analysis", "threat_intel")>>
      [] op = "providersIntegrationsTest" -> [success |-> FALSE, message |-> message]
      [] op = "providersSocial" ->
            <<Model("line", "Line", "not_configured"),
              Model("whatsapp", "WhatsApp", "not_configured")>>

\* the catch branch answering 500 for the skills list as well
FailStatus_SkillsToo(op) == IF op \in {"skills", "skillsGenerate"} THEN 500 ELSE 200

\* the status of the response of the catch branch: res.status(500) in
\* skills/generate, the default 200 elsewhere
FailStatus(op) == IF op = "skillsGenerate" THEN 500 ELSE 200

ForwardStart(s, op, body) ==
    /\ op \in Forwarders
    /\ CallRemote(s, op, body, "")
    /\ UNCHANGED <<storeVars, envApiKey, remoteKey, now, lastResp, inserted, cronTrace>>

ForwardOk(s, data) ==
    /\ reqs[s].pc = "awaiting"
    /\ reqs[s].op \in Forwarders
    /\ Respond(s, OkOutcome(data), 200, data, <<>>)
    /\ UNCHANGED <<storeVars, keyVars, now, received, inserted, cronTrace>>

\* the catch branch answering 503 when the remote service could not be reached
ForwardFail_ByKind(s, out, db) ==
    /\ reqs[s].pc = "awaiting"
    /\ reqs[s].op \in Forwarders
    /\ out.kind # "ok"
    /\ Respond(s, out, IF out.kind = "conn" THEN 503 ELSE FailStatus(reqs[s].op),
               Default(reqs[s].op, reqs[s].body, ErrMessage(out), db), <<>>)
    /\ UNCHANGED <<storeVars, keyVars, now, received, inserted, cronTrace>>

ForwardFail(s, out, db) ==
    /\ reqs[s].pc = "awaiting"
    /\ reqs[s].op \in Forwarders
    /\ out.kind # "ok"
    /\ Respond(s, out, FailStatus(reqs[s].op),
               Default(reqs[s].op, reqs[s].body, ErrMessage(out), db), <<>>)
    /\ UNCHANGED <<storeVars, keyVars, now, received, inserted, cronTrace>>

\* ---------------------------------------------- GET /api/sentinel/gateways
\* the body of the catch branch, computed from storage.getGateways()
GatewaySummary(gws) ==
    [total_gateways |-> Len(gws),
     connected |-> Len(SelectSeq(gws, LAMBDA g : g.status = "connected")),
     gateways |-> [i \in 1..Len(gws) |->
                      [name |-> gws[i].name, type |-> gws[i].type,
                       connected |-> gws[i].status = "connected"]],
     broadcast_count |-> 0]

GatewaysStart(s) ==
    /\ CallRemote(s, "gateways", NoBody, "")
    /\ UNCHANGED <<storeVars, envApiKey, remoteKey, now, lastResp, inserted, cronTrace>>

\* the try branch marking the local gateways connected when the remote
\* service answers
GatewaysOk_Sync(s, data) ==
    /\ Awaiting(s, "gateways")
    /\ gateways' = [i \in DOMAIN gateways |-> [gateways[i] EXCEPT !.status = "connected"]]
    /\ Respond(s, OkOutcome(data), 200, data, <<>>)
    /\ UNCHANGED <<alerts, alertIdCounter, cronJobs, nodes, keyVars, now, received,
                   inserted, cronTrace>>

GatewaysOk(s, data) ==
    /\ Awaiting(s, "gateways")
    /\ Respond(s, OkOutcome(data), 200, data, <<>>)
    /\ UNCHANGED <<storeVars, keyVars, now, received, inserted, cronTrace>>

GatewaysFail(s, out) ==
    /\ Awaiting(s, "gateways")
    /\ out.kind # "ok"
    /\ Respond(s, out, 200, GatewaySummary(getGateways(gateways)), <<>>)
    /\ UNCHANGED <<storeVars, keyVars, now, received, inserted, cronTrace>>

\* ------------------------- GET /api/sentinel/stats, /alerts and /nodes
\* GET alerts reversing the stored array in place: this.alerts.reverse()
StoreGet_ReverseInPlace(s, op) ==
    /\ Free(s)
    /\ op \in {"stats", "alerts", "nodes"}
    /\ received' = received + 1
    /\ alerts' = IF op = "alerts" THEN Reverse(alerts) ELSE alerts
    /\ lastResp' = [slot |-> s, op |-> op, req |-> [IdleReq EXCEPT !.op = op],
                    out |-> NoOutcome, status |-> 200,
                    body |-> CASE op = "stats" -> getStats(alerts, cronJobs, nodes, gateways)
                               [] op = "alerts" -> getAlerts(alerts)
                               [] op = "nodes" -> getNodes(nodes),
                    added |-> <<>>]
    /\ UNCHANGED <<alertIdCounter, cronJobs, fleetVars, keyVars, now, reqs, inserted, cronTrace>>

\* the handlers without an outbound call: one step from request to response
StoreGet(s, op) ==
    /\ Free(s)
    /\ op \in {"stats", "alerts", "nodes"}
    /\ received' = received + 1
    /\ lastResp' = [slot |-> s, op |-> op, req |-> [IdleReq EXCEPT !.op = op],
                    out |-> NoOutcome, status |-> 200,
                    body |-> CASE op = "stats" -> getStats(alerts, cronJobs, nodes, gateways)
                               [] op = "alerts" -> getAlerts(alerts)
                               [] op = "nodes" -> getNodes(nodes),
                    added |-> <<>>]
    /\ UNCHANGED <<storeVars, keyVars, now, reqs, inserted, cronTrace>>

\* ---------------------------------------------- POST /api/sentinel/terminal
AnalyzeOutput(command) ==
    "Queuing analysis for alert: " \o Trim(Replace(command, "/analyze ", ""))
    \o ". Use the Alert Feed to submit full alert data."

\* the handler up to its first suspension point, its response, or its throw
TerminalStart(s, body) ==
    LET command == Command(body)
    IN  \/ /\ Route(command) \in {"status", "scan", "ask"}
           /\ CallRemote(s, "terminal", body, "")
           /\ UNCHANGED <<storeVars, envApiKey, remoteKey, now, lastResp, inserted, cronTrace>>
        \/ /\ Route(command) = "analyze"
           /\ Free(s)
           /\ received' = received + 1
           /\ lastResp' = [slot |-> s, op |-> "terminal",
                           req |-> [IdleReq EXCEPT !.op = "terminal", !.body = body],
                           out |-> NoOutcome, status |-> 200,
                           body |-> [output |-> AnalyzeOutput(command)], added |-> <<>>]
           /\ UNCHANGED <<storeVars, keyVars, now, reqs, inserted, cronTrace>>
        \/ /\ Route(command) = "throws"
           /\ Free(s)
           /\ received' = received + 1
           /\ reqs' = [reqs EXCEPT ![s] = [IdleReq EXCEPT !.pc = "rejected",
                                             !.op = "terminal", !.body = body]]
           /\ UNCHANGED <<storeVars, keyVars, now, lastResp, inserted, cronTrace>>

TerminalOk(s, data) ==
    /\ Awaiting(s, "terminal")
    /\ LET output == IF Route(Command(reqs[s].body)) = "status"
                     THEN JSONstringify2(data)
                     ELSE Or(Field(data, "result"), JSONstringify(data))
       IN  Respond(s, OkOutcome(data), 200, [output |-> output], <<>>)
    /\ UNCHANGED <<storeVars, keyVars, now, received, inserted, cronTrace>>

\* the catch branches issuing the outbound call a second time before giving up
TerminalFail_Retry(s, out) ==
    /\ Awaiting(s, "terminal")
    /\ out.kind # "ok"
    /\ LET route == Route(Command(reqs[s].body))
           output == CASE route = "status" -> "CyberSentinel backend is offline."
                       [] route = "scan" -> "Scan failed: " \o ErrMessage(out)
                       [] route = "ask" ->
                             "Processing error: " \o ErrMessage(out)
                             \o ". Is the CyberSentinel backend running?"
       IN  IF reqs[s].calls < 2
           THEN /\ reqs' = [reqs EXCEPT ![s].calls = @ + 1]
                /\ UNCHANGED lastResp
           ELSE Respond(s, out, 200, [output |-> output], <<>>)
    /\ UNCHANGED <<storeVars, keyVars, now, received, inserted, cronTrace>>

TerminalFail(s, out) ==
    /\ Awaiting(s, "terminal")
    /\ out.kind # "ok"
    /\ LET route == Route(Command(reqs[s].body))
           output == CASE route = "status" -> "CyberSentinel backend is offline."
                       [] route = "scan" -> "Scan failed: " \o ErrMessage(out)
                       [] route = "ask" ->
                             "Processing error: " \o ErrMessage(out)
                             \o ". Is the CyberSentinel backend running?"
       IN  Respond(s, out, 200, [output |-> output], <<>>)
    /\ UNCHANGED <<storeVars, keyVars, now, received, inserted, cronTrace>>

\* ------------------------------------------------- callers of the store
\* A module other than the handlers calls the store directly.
ListOps == {"getAlerts", "getCronJobs", "getNodes", "getGateways"}

\* What a list operation returns: `array` is the array object, a new one for
\* getAlerts ([...this.alerts].reverse()) and the array the store holds
\* itself for the others (return this.cronJobs); `items` is its content.
Returned(op) ==
    CASE op = "getAlerts" -> [array |-> "new", items |-> getAlerts(alerts)]
      [] op = "getCronJobs" -> [array |-> "cronJobs", items |-> getCronJobs(cronJobs)]
      [] op = "getNodes" -> [array |-> "nodes", items |-> getNodes(nodes)]
      [] op = "getGateways" -> [array |-> "gateways", items |-> getGateways(gateways)]

\* the content of the array object `held` now
Items(held) ==
    CASE held.array = "new" -> held.items
      [] held.array = "cronJobs" -> cronJobs
      [] held.array = "nodes" -> nodes
      [] held.array = "gateways" -> gateways

\* Array.prototype.push(entry), pop() and reverse(): they change the array
Mutated(list, m, entry) ==
    CASE m = "push" -> Append(list, entry)
      [] m = "pop" -> SubSeq(list, 1, Len(list) - 1)
      [] m = "reverse" -> Reverse(list)

\* the caller calls the list operation `op` and keeps what it returned
ListCall(s, op) ==
    /\ Free(s)
    /\ op \in ListOps
    /\ received' = received + 1
    /\ reqs' = [reqs EXCEPT ![s] = [IdleReq EXCEPT !.pc = "holding", !.op = op,
                                      !.body = Returned(op)]]
    /\ UNCHANGED <<storeVars, keyVars, now, lastResp, inserted, cronTrace>>

\* the caller changes the array it holds, and drops it
CallerMutates(s, m, entry) ==
    /\ reqs[s].pc = "holding"
    /\ LET held == reqs[s].body
           after == Mutated(Items(held), m, entry)
       IN  /\ after # Items(held)
           /\ cronJobs' = IF held.array = "cronJobs" THEN after ELSE cronJobs
           /\ nodes' = IF held.array = "nodes" THEN after ELSE nodes
           /\ gateways' = IF held.array = "gateways" THEN after ELSE gateways
           /\ Respond(s, NoOutcome, 0, after, <<>>)
    /\ UNCHANGED <<alerts, alertIdCounter, keyVars, now, received, inserted, cronTrace>>

\* the caller calls storage.updateGatewayStatus(id, status); the response
\* holds what the call returned: the gateway `gw`, null when `found` is false
UpdateGatewayStatus(id, status) ==
    LET u == updateGatewayStatus(gateways, id, status)
    IN  /\ gateways' = u.gateways
        /\ received' = received + 1
        /\ lastResp' = [slot |-> 0, op |-> "updateGatewayStatus",
                        req |-> [IdleReq EXCEPT !.op = "updateGatewayStatus", !.id = id,
                                                !.body = [status |-> status]],
                        out |-> NoOutcome, status |-> 0,
                        body |-> [found |-> u.found, gw |-> u.gw], added |-> <<>>]
        /\ UNCHANGED <<alerts, alertIdCounter, cronJobs, nodes, keyVars, now, reqs,
                       inserted, cronTrace>>

\* ---------------------------------------------------------------- Init
\* the entries the constructor of MemStorage seeds
NodeEntry(id, name, type, status, ms) ==
    [id |-> id, name |-> name, type |-> type, status |-> status,
     last_heartbeat |-> toISOString(ms), alerts_processed |-> 0, ip |-> "127.0.0.1"]

GatewayEntry(id, name, type) ==
    [id |-> id, name |-> name, type |-> type, status |-> "disconnected",
     enabled |-> FALSE, last_message |-> Null, messages_sent |-> 0]

Init ==
    /\ alerts = <<>>
    /\ alertIdCounter = 1
    /\ cronJobs = <<>>
    /\ nodes = <<NodeEntry("node-gateway", "Sovereign Gateway", "gateway", "online", 0)>>
    /\ gateways = <<GatewayEntry("gw-telegram", "Telegram", "telegram"),
                    GatewayEntry("gw-discord", "Discord", "discord"),
                    GatewayEntry("gw-slack", "Slack", "slack")>>
    /\ cachedApiKey = Null
    /\ envApiKey = "k1"
    /\ remoteKey = "k1"
    /\ now = 0
    /\ reqs = [s \in Slots |-> IdleReq]
    /\ lastResp = NoResp
    /\ received = 0
    /\ inserted = <<>>
    /\ rotatedTo = Null
    /\ cronTrace = <<>>

\* ------------------------------------------------------------- CapSpec
\* The store fills up to its cap: concurrent ingests of one alert while the
\* remote service is down, the service coming back shortly before the cap.
CapBody == IngestBody("A1", "custom")
CapData == {IngestData("queued", Undefined, Undefined, Undefined, "T1"),
            IngestData(Undefined, "True Positive", "High", "done", Undefined)}

Issued == (alertIdCounter - 1) + Cardinality({s \in Slots : reqs[s].pc = "awaiting"})

CapIngestStart == \E s \in Slots :
    /\ Issued < AlertCap + CapExtra
    /\ IngestStart(s, CapBody)

CapIngestFail == \E s \in Slots : IngestFail(s, ConnOutcome)

CapIngestOk == \E s \in Slots, data \in CapData :
    /\ Len(alerts) >= AlertCap - CapMargin
    /\ IngestOk(s, data)

\* GET alerts while the store is at its cap
CapAlertsGet == \E s \in Slots :
    /\ Len(alerts) >= AlertCap - CapMargin
    /\ received - Issued < CapReads
    /\ StoreGet(s, "alerts")

CapNext == CapIngestStart \/ CapIngestFail \/ CapIngestOk \/ CapAlertsGet

CapSpec == Init /\ [][CapNext]_vars

\* ----------------------------------------------------------- IngestSpec
\* Concurrent ingests of any body with any outcome of the outbound call.
IngestBodies == {IngestBody("A1", "splunk"), IngestBody(Undefined, Undefined)}
IngestDatas == {IngestData("queued", Undefined, Undefined, Undefined, "T1"),
                IngestData("queued", "True Positive", "High", "done", "T2"),
                IngestData("done", "False Positive", Undefined, Undefined, Undefined),
                IngestData(Undefined, Undefined, Undefined, Undefined, Undefined)}
Failures == {ConnOutcome, StatusOutcome("503", "down")}

\* Date.now() advances
Tick ==
    /\ now < MaxNow
    /\ now' = now + 1
    /\ UNCHANGED <<storeVars, keyVars, reqs, lastResp, received, inserted, cronTrace>>

AnyIngestStart == \E s \in Slots, body \in IngestBodies :
    /\ Issued < MaxIngest
    /\ IngestStart(s, body)

AnyIngestOk == \E s \in Slots, data \in IngestDatas : IngestOk(s, data)

AnyIngestFail == \E s \in Slots, out \in Failures : IngestFail(s, out)

IngestNext == AnyIngestStart \/ AnyIngestOk \/ AnyIngestFail \/ Tick

IngestSpec == Init /\ [][IngestNext]_vars

\* ------------------------------------------------------------- CronSpec
\* Concurrent cron requests with any outcome of the outbound call.
CronBodies == {[name |-> "sweep", schedule |-> "daily", task |-> "scan", squad |-> "blue"],
               [name |-> "sweep", schedule |-> "hourly", task |-> "scan", squad |-> "blue",
                enabled |-> FALSE, next_run |-> Null]}
Uuids == {"0a1b2c3d", "4e5f6a7b"}
CronIds == {"cron-" \o u : u \in Uuids}
RemoteReply == [status |-> "ok"]

CronListStart == \E s \in Slots :
    /\ received < MaxCronReqs
    /\ CronStart(s, "cronList", NoBody, "")

CronAddStart == \E s \in Slots, body \in CronBodies :
    /\ received < MaxCronReqs
    /\ CronStart(s, "cronAdd", body, "")

CronToggleStart == \E s \in Slots, id \in CronIds :
    /\ received < MaxCronReqs
    /\ CronStart(s, "cronToggle", NoBody, id)

CronDeleteStart == \E s \in Slots, id \in CronIds :
    /\ received < MaxCronReqs
    /\ CronStart(s, "cronDelete", NoBody, id)

CronOk == \E s \in Slots :
    \/ CronListOk(s, RemoteReply)
    \/ CronAddOk(s, RemoteReply)
    \/ CronToggleOk(s, RemoteReply)
    \/ CronDeleteOk(s, RemoteReply)

CronListFails == \E s \in Slots, out \in Failures : CronListFail(s, out)
CronAddFails == \E s \in Slots, out \in Failures, u \in Uuids : CronAddFail(s, out, u)
CronToggleFails == \E s \in Slots, out \in Failures : CronToggleFail(s, out)
CronDeleteFails == \E s \in Slots, out \in Failures : CronDeleteFail(s, out)

CronNext ==
    \/ CronListStart \/ CronAddStart \/ CronToggleStart \/ CronDeleteStart
    \/ CronOk
    \/ CronListFails \/ CronAddFails \/ CronToggleFails \/ CronDeleteFails

CronSpec == Init /\ [][CronNext]_vars

\* -------------------------------------------------------------- KeySpec
\* Credential rotations and forwarded calls, the configured credential
\* changing at any time.
Keys == {"k1", "k2"}
EnvValues == Keys \cup {"", Undefined}

KeyHealthStart == \E s \in Slots :
    /\ received < MaxKeyReqs
    /\ HealthStart(s)

KeyHealthOk == \E s \in Slots : HealthOk(s, RemoteReply)

KeyHealthFail == \E s \in Slots, out \in Failures : HealthFail(s, out)

KeyRotateStart == \E s \in Slots :
    /\ received < MaxKeyReqs
    /\ RotateStart(s)

KeyRotateOk == \E s \in Slots, k \in Keys : RotateOk(s, RemoteReply, k)

KeyRotateFail == \E s \in Slots, out \in Failures : RotateFail(s, out)

KeyConfigChange == \E v \in EnvValues : ConfigChange(v)

KeyNext ==
    \/ KeyHealthStart \/ KeyHealthOk \/ KeyHealthFail
    \/ KeyRotateStart \/ KeyRotateOk \/ KeyRotateFail
    \/ KeyConfigChange

KeySpec == Init /\ [][KeyNext]_vars

\* -------------------------------------------------------------- FwdSpec
\* The whole HTTP surface: every handler with a try/catch around its outbound
\* call, the terminal dispatcher, and the three handlers that only read the
\* store.
AgentBodies == {[squad |-> "blue", task |-> "triage"], [squad |-> Undefined, task |-> "triage"]}
PostBody == [name |-> "probe"]

\* the request bodies of the forwarding handler `op`
BodiesOf(op) ==
    CASE op = "agentsRun" -> AgentBodies
      [] op \in {"skillsGenerate", "gatewaysTest", "settingsPost",
                 "providersIntegrationsTest"} -> {PostBody}
      [] OTHER -> {NoBody}

\* what the database fallback of the handler `op` can find
DbResults(op) ==
    CASE op = "onboarding" -> {DbNone, DbRow(TRUE, <<"welcome">>), DbRow(FALSE, Null)}
      [] op = "onboardingComplete" -> {DbNone, DbInserted}
      [] OTHER -> {DbNone}

FwdBody == [name |-> "sweep", schedule |-> "daily", task |-> "scan", squad |-> "blue"]
FwdUuid == "0a1b2c3d"
FwdId == "cron-" \o FwdUuid

\* the bodies of the terminal requests and the replies of the remote service
TermBodies == {[command |-> "/status"], [command |-> "/analyze  A-7 "],
               [command |-> "/scan host1 "], [command |-> "who is 10.0.0.5"],
               [cmd |-> "/status"]}
TermDatas == {[result |-> "clean"], [result |-> ""], [status |-> "ok"]}

FwdStart == \E s \in Slots :
    /\ received < MaxFwdReqs
    /\ \/ \E op \in Forwarders : \E body \in BodiesOf(op) : ForwardStart(s, op, body)
       \/ HealthStart(s)
       \/ GatewaysStart(s)
       \/ RotateStart(s)
       \/ IngestStart(s, CapBody)
       \/ CronStart(s, "cronList", NoBody, "")
       \/ CronStart(s, "cronAdd", FwdBody, "")
       \/ CronStart(s, "cronToggle", NoBody, FwdId)
       \/ CronStart(s, "cronDelete", NoBody, FwdId)
       \/ \E body \in TermBodies : TerminalStart(s, body)

FwdStoreGet == \E s \in Slots, op \in {"stats", "alerts", "nodes"} :
    /\ received < MaxFwdReqs
    /\ StoreGet(s, op)

\* the outbound call of the request in slot s completes with a success status
FwdOkOf(s) ==
    \/ ForwardOk(s, RemoteReply)
    \/ HealthOk(s, RemoteReply)
    \/ GatewaysOk(s, RemoteReply)
    \/ \E k \in Keys : RotateOk(s, RemoteReply, k)
    \/ \E data \in CapData : IngestOk(s, data)
    \/ CronListOk(s, RemoteReply)
    \/ CronAddOk(s, RemoteReply)
    \/ CronToggleOk(s, RemoteReply)
    \/ CronDeleteOk(s, RemoteReply)
    \/ \E data \in TermDatas : TerminalOk(s, data)

FwdOk == \E s \in Slots : FwdOkOf(s)

\* the outbound call of the request in slot s fails
FwdFailOf(s) == \E out \in Failures :
    \/ \E db \in DbResults(reqs[s].op) : ForwardFail(s, out, db)
    \/ HealthFail(s, out)
    \/ GatewaysFail(s, out)
    \/ RotateFail(s, out)
    \/ IngestFail(s, out)
    \/ CronListFail(s, out)
    \/ CronAddFail(s, out, FwdUuid)
    \/ CronToggleFail(s, out)
    \/ CronDeleteFail(s, out)
    \/ TerminalFail(s, out)

FwdFail == \E s \in Slots : FwdFailOf(s)

FwdNext == FwdStart \/ FwdStoreGet \/ FwdOk \/ FwdFail

FwdSpec == Init /\ [][FwdNext]_vars

\* ------------------------------------------------------------- TermSpec
\* Terminal requests with any command, and with a body that has no command.
\* commands next to the recognised ones, and a body with more than a command
TermEdgeBodies == {[command |-> "/status "], [command |-> "/scan", squad |-> "red"]}

TermStart == \E s \in Slots, body \in TermBodies \cup TermEdgeBodies :
    /\ received < MaxTermReqs
    /\ TerminalStart(s, body)

TermOk == \E s \in Slots, data \in TermDatas : TerminalOk(s, data)

TermFail == \E s \in Slots, out \in Failures : TerminalFail(s, out)

TermNext == TermStart \/ TermOk \/ TermFail

TermSpec == Init /\ [][TermNext]_vars

\* Terminal requests when the outbound call of the first connection always
\* completes, with a success or with a failure; the call of the other
\* connection may stay open for ever (fetch is given no timeout).
TermLiveSpec ==
    TermSpec /\ WF_vars((\E data \in TermDatas : TerminalOk(1, data))
                            \/ (\E out \in Failures : TerminalFail(1, out)))

\* ------------------------------------------------------------ StoreSpec
\* Direct calls of the store, next to handlers that fall back to it.
PushedEntry(op) ==
    CASE op = "getAlerts" -> [id |-> 0] @@ ErrAlert(CapBody, "fetch failed", 0)
      [] op = "getCronJobs" -> addCronJob(<<>>, FwdBody, "ffffffff", 0).entry
      [] op = "getNodes" -> NodeEntry("node-edge", "Edge", "sensor", "offline", 0)
      [] op = "getGateways" -> GatewayEntry("gw-email", "Email", "email")
GatewayIds == {"gw-slack", "gw-email"}
GatewayStatuses == {"connected", "disconnected"}

StoreListCall == \E s \in Slots, op \in ListOps :
    /\ received < MaxStoreCalls
    /\ ListCall(s, op)

StoreCallerMutates == \E s \in Slots, m \in {"push", "pop", "reverse"} :
    CallerMutates(s, m, PushedEntry(reqs[s].op))

StoreUpdateGateway == \E id \in GatewayIds, status \in GatewayStatuses :
    /\ received < MaxStoreCalls
    /\ UpdateGatewayStatus(id, status)

StoreRequest == \E s \in Slots :
    /\ received < MaxStoreCalls
    /\ \/ IngestStart(s, CapBody)
       \/ CronStart(s, "cronAdd", FwdBody, "")
       \/ \E id \in CronIds : CronStart(s, "cronToggle", NoBody, id)

StoreRequestOk == \E s \in Slots :
    \/ \E data \in CapData : IngestOk(s, data)
    \/ CronAddOk(s, RemoteReply)
    \/ CronToggleOk(s, RemoteReply)

StoreRequestFail == \E s \in Slots, out \in Failures :
    \/ IngestFail(s, out)
    \/ CronAddFail(s, out, FwdUuid)
    \/ CronToggleFail(s, out)

StoreStats == \E s \in Slots :
    /\ received < MaxStoreCalls
    /\ StoreGet(s, "stats")

StoreNext ==
    \/ StoreListCall \/ StoreCallerMutates \/ StoreUpdateGateway \/ StoreStats
    \/ StoreRequest \/ StoreRequestOk \/ StoreRequestFail

StoreSpec == Init /\ [][StoreNext]_vars

\* ----------------------------------------------------------- ClientSpec
\* Ingests whose outbound call ends in every way fetch and the response allow.
RECURSIVE Repeat(_, _)
Repeat(str, n) == IF n = 0 THEN "" ELSE str \o Repeat(str, n - 1)

\* a response text longer than the excerpt kept in the error message
LongText == Repeat("0123456789", 21)

Fetched ==
    {Rejected} \cup
    {Response(TRUE, "200", TRUE, "", TRUE, data) : data \in CapData} \cup
    {Response(TRUE, "200", TRUE, "<html>", FALSE, NoBody)} \cup
    {Response(FALSE, "503", TRUE, text, FALSE, NoBody) : text \in {"down", LongText}} \cup
    {Response(FALSE, "404", FALSE, "", FALSE, NoBody)}

ClientStart == \E s \in Slots :
    /\ received < MaxClientReqs
    /\ IngestStart(s, CapBody)

ClientCompletes == \E s \in Slots, fetched \in Fetched :
    LET out == proxyToSentinel(fetched)
    IN  IF out.kind = "ok" THEN IngestOk(s, out.data) ELSE IngestFail(s, out)

ClientNext == ClientStart \/ ClientCompletes

ClientSpec == Init /\ [][ClientNext]_vars

\* ----------------------------------------------------------------- Spec
\* The whole gateway: every handler above, under the bounds of the
\* specifications above.
Next == CapNext \/ IngestNext \/ CronNext \/ KeyNext \/ FwdNext \/ TermNext \/ StoreNext
        \/ ClientNext

Spec == Init /\ [][Next]_vars

\* ------------------------------------------------------------ properties
Min(a, b) == IF a < b THEN a ELSE b

\* String.prototype.includes
Contains(str, sub) ==
    \E i \in 0..(Len(str) - Len(sub)) : SubSeq(str, i + 1, i + Len(sub)) = sub

\* the request in some slot is an ingest and gets its response in this step
IngestResponds == \E s \in Slots : Awaiting(s, "ingest") /\ reqs'[s].pc = "idle"

\* C1: after N addAlert calls on a fresh store, getAlerts returns exactly
\* min(N, 500) entries, the last min(N, 500) entries inserted, most recent
\* first; after 501 inserts the lowest surviving id is 2, it belongs to the
\* 2nd inserted entry, and getStats().total_alerts is 500.
C1_NewestFirstFifo ==
    LET N == Len(inserted)
        m == Min(N, 500)
        list == getAlerts(alerts)
    IN  /\ Len(list) = m
        /\ \A i \in 1..m : list[i] = inserted[N + 1 - i]
        /\ N = 501 =>
              /\ getStats(alerts, cronJobs, nodes, gateways).total_alerts = 500
              /\ \A i \in 1..m : list[i].id >= 2
              /\ list[m].id = 2 /\ list[m] = inserted[2]

C1_Witness ==
    /\ Len(inserted) = 501
    /\ Len(alerts) = 500
    /\ alerts[1] = inserted[2]

\* C2: the ids of the stored alerts are strictly increasing in insertion
\* order (so pairwise distinct), under any interleaving of in-flight
\* ingests, and no id is assigned twice: the ids of all entries ever
\* inserted, evicted ones included, are strictly increasing and below the
\* next id to assign.
C2_IdsIncreaseNeverReused ==
    /\ \A i \in 1..(Len(alerts) - 1) : alerts[i].id < alerts[i + 1].id
    /\ \A i \in 1..(Len(inserted) - 1) : inserted[i].id < inserted[i + 1].id
    /\ \A i \in 1..Len(inserted) : inserted[i].id < alertIdCounter

C2_Witness ==
    /\ Len(inserted) > AlertCap
    /\ \A s \in Slots : Awaiting(s, "ingest")

\* C3 as stated: every ingest leaves the collection one entry longer.
C3_CountPlusOne ==
    [][IngestResponds => Len(alerts') = Len(alerts) + 1]_vars

\* C3 as amended: every ingest, whatever the outcome of its outbound call,
\* stores exactly one new entry as the newest one; the collection is one entry
\* longer when it held fewer than 500 entries and stays at 500 when it was
\* full (the oldest entry is evicted).
C3_OneNewEntryUpToCap ==
    [][IngestResponds =>
          /\ Len(inserted') = Len(inserted) + 1
          /\ Len(alerts') = Min(Len(alerts) + 1, 500)
          /\ alerts'[Len(alerts')] = inserted'[Len(inserted')]
          /\ \A i \in 1..(Len(alerts') - 1) :
                alerts'[i] = alerts[i + (Len(alerts) + 1 - Len(alerts'))]]_vars

C3_Witness ==
    /\ Len(inserted) > AlertCap
    /\ Len(alerts) = AlertCap
    /\ lastResp.op = "ingest" /\ lastResp.out.kind = "ok"
    /\ lastResp.added = <<alerts[Len(alerts)]>>

\* C4: an ingest request that gets a response has called addAlert exactly
\* once before it, on the success path and on the failure path, with the
\* alert_id of the request (the generated "ALERT-<time>" when the request has
\* none); no other step calls addAlert.
C4_AddAlertExactlyOnce ==
    [][IF IngestResponds
       THEN /\ Len(inserted') = Len(inserted) + 1
            /\ lastResp'.added = <<inserted'[Len(inserted')]>>
            /\ lastResp'.op = "ingest"
            /\ LET id == lastResp'.req.body.alert_id
               IN  lastResp'.added[1].alert_id =
                      IF id \in {Undefined, ""} THEN "ALERT-" \o ToString(now) ELSE id
       ELSE inserted' = inserted /\ alerts' = alerts]_vars

C4_Witness ==
    /\ lastResp.op = "ingest"
    /\ lastResp.out.kind = "conn"
    /\ lastResp.req.body.alert_id = "A1"
    /\ Len(lastResp.added) = 1 /\ lastResp.added[1].alert_id = "A1"
    /\ \E i \in 1..Len(inserted) : inserted[i].verdict = "Pending"

\* C5: when the outbound call of an ingest fails (connection failure or
\* non-success status) the store holds a new entry with verdict "Error" whose
\* summary contains the failure reason, and the response is HTTP 500 with an
\* `error` field carrying the error message.
C5_FailureRecordedAndSurfaced ==
    (lastResp.op = "ingest" /\ lastResp.out.kind \in {"conn", "status"}) =>
        /\ lastResp.status = 500
        /\ "error" \in DOMAIN lastResp.body
        /\ IF lastResp.out.kind = "status"
           THEN /\ Contains(lastResp.body.error, lastResp.out.status)
                /\ Contains(lastResp.body.error, lastResp.out.text)
           ELSE lastResp.body.error = "fetch failed"
        /\ Len(lastResp.added) = 1
        /\ lastResp.added[1].verdict = "Error"
        /\ Contains(lastResp.added[1].summary, lastResp.body.error)
        /\ \E i \in 1..Len(alerts) : alerts[i] = lastResp.added[1]

C5_Witness ==
    /\ lastResp.op = "ingest"
    /\ lastResp.out.kind = "status" /\ lastResp.out.status = "503"
    /\ Contains(lastResp.added[1].summary, "503: down")
    /\ lastResp.status = 500
    /\ alerts # <<>> /\ alerts[Len(alerts)].verdict = "Error"

After(k) == IF k = Len(cronTrace) THEN cronJobs ELSE cronTrace[k + 1].before

HasJob(jobs, id) == \E i \in 1..Len(jobs) : jobs[i].id = id

\* the k-th operation of cronTrace is a toggle of a job that exists
TogglesExisting(k) ==
    /\ k \in 1..Len(cronTrace)
    /\ cronTrace[k].op = "toggle"
    /\ HasJob(cronTrace[k].before, cronTrace[k].id)

\* C7: toggleCronJob(id) on an existing job flips its `enabled` flag; two
\* consecutive toggleCronJob(id) calls leave the whole cron collection as it
\* was, and two toggleCronJob(id) calls separated by an operation that is not
\* on that id leave the job's `enabled` value as it was.
C7_DoubleToggleIdentity ==
    \A k \in 1..Len(cronTrace) :
        TogglesExisting(k) =>
            LET e == cronTrace[k]
                i == FindJob(e.before, e.id)
            IN  /\ e.ret = [e.before[i] EXCEPT !.enabled = ~e.before[i].enabled]
                /\ After(k) = [e.before EXCEPT ![i] = e.ret]
                /\ (TogglesExisting(k + 1) /\ cronTrace[k + 1].id = e.id)
                      => After(k + 1) = e.before
                /\ ( /\ TogglesExisting(k + 2) /\ cronTrace[k + 2].id = e.id
                     /\ cronTrace[k + 1].id # e.id )
                      => LET jobs == After(k + 2)
                         IN  jobs[FindJob(jobs, e.id)].enabled = e.before[i].enabled

C7_Witness ==
    /\ Len(cronTrace) = 4
    /\ TogglesExisting(3) /\ TogglesExisting(4)
    /\ cronTrace[3].id = cronTrace[4].id
    /\ cronTrace[3].ret.enabled = FALSE
    /\ cronTrace[4].ret.enabled = TRUE
    /\ Len(cronJobs) = 2
    /\ cronJobs = cronTrace[3].before

\* the (k+1)-th operation of cronTrace is a toggle or a delete of the id that
\* the k-th operation deleted
AfterRemove(k) ==
    /\ k + 1 <= Len(cronTrace)
    /\ cronTrace[k].op = "delete"
    /\ cronTrace[k + 1].op \in {"toggle", "delete"}
    /\ cronTrace[k + 1].id = cronTrace[k].id

TogglesCreated(k, m) ==
    /\ m <= Len(cronTrace)
    /\ cronTrace[m].op = "toggle"
    /\ cronTrace[m].id = cronTrace[k].ret.id

\* C9: while the remote service is down, POST cron creates a job with
\* enabled = true, last_run = null and next_run one hour after the creation
\* time, whatever the body; a following GET cron lists that job; a following
\* PATCH toggle of the returned id answers with the job having enabled = false.
C9_FallbackJobLifecycle ==
    \A k \in 1..Len(cronTrace) :
        cronTrace[k].op = "add" =>
            LET job == cronTrace[k].ret
            IN  /\ job.enabled = TRUE
                /\ job.last_run = Null
                /\ job.next_run = toISOString(cronTrace[k].at + 3600000)
                /\ cronTrace[k].status = 200 /\ cronTrace[k].body = job
                /\ (k + 1 <= Len(cronTrace) /\ cronTrace[k + 1].op = "list")
                      => /\ cronTrace[k + 1].status = 200
                         /\ \E i \in 1..Len(cronTrace[k + 1].body) :
                                cronTrace[k + 1].body[i] = job
                /\ \A m \in {k + 1, k + 2} :
                      ( /\ TogglesCreated(k, m)
                        /\ m = k + 2 => cronTrace[k + 1].op = "list" )
                      => /\ cronTrace[m].status = 200
                         /\ cronTrace[m].body.id = job.id
                         /\ cronTrace[m].body.enabled = FALSE

\* C9 holds of a job whose generated id no older job has.
C9_FallbackJobLifecycleFreshId ==
    \A k \in 1..Len(cronTrace) :
        (cronTrace[k].op = "add" /\ ~HasJob(cronTrace[k].before, cronTrace[k].id)) =>
            LET job == cronTrace[k].ret
            IN  /\ job.enabled = TRUE
                /\ job.last_run = Null
                /\ job.next_run = toISOString(cronTrace[k].at + 3600000)
                /\ cronTrace[k].status = 200 /\ cronTrace[k].body = job
                /\ (k + 1 <= Len(cronTrace) /\ cronTrace[k + 1].op = "list")
                      => /\ cronTrace[k + 1].status = 200
                         /\ \E i \in 1..Len(cronTrace[k + 1].body) :
                                cronTrace[k + 1].body[i] = job
                /\ \A m \in {k + 1, k + 2} :
                      ( /\ TogglesCreated(k, m)
                        /\ m = k + 2 => cronTrace[k + 1].op = "list" )
                      => /\ cronTrace[m].status = 200
                         /\ cronTrace[m].body = [job EXCEPT !.enabled = FALSE]

\* an outbound call is issued in this step from slot s
CallIssued(s) == reqs[s].pc = "idle" /\ reqs'[s].pc = "awaiting"

\* C10: after a rotation whose outbound call succeeded, the next outbound
\* call carries the new credential in its credential header.
C10_NextCallUsesRotatedKey ==
    [][\A s \in Slots :
          (CallIssued(s) /\ rotatedTo # Null) => reqs'[s].key = rotatedTo]_vars

\* What the code does: the next outbound call after a successful rotation
\* carries process.env.APP_API_KEY as it is when that call is made.
C10_NextCallUsesConfiguredKey ==
    [][\A s \in Slots :
          (CallIssued(s) /\ rotatedTo # Null) =>
              reqs'[s].key = (IF envApiKey = Undefined THEN "" ELSE envApiKey)]_vars

\* the handlers whose catch branch answers with an HTTP error
Surfacing == {"ingest", "skillsGenerate"}

\* the last response was sent by a catch branch
FailedOver == lastResp.out.kind \in {"conn", "status"}

\* C11: for every endpoint that has a fallback or default, a failure of the
\* outbound call (connection failure or non-success status) is answered with
\* HTTP 200 and the fallback body; an HTTP 500 is produced by POST ingest and
\* POST skills/generate only, and only when their outbound call failed.
C11_FailureAnswersFallback ==
    /\ lastResp.status \in {0, 200, 500}
    /\ lastResp.status = 500 => (lastResp.op \in Surfacing /\ FailedOver)
    /\ (FailedOver /\ lastResp.op \notin Surfacing) =>
          /\ lastResp.status = 200
          /\ lastResp.op \in Forwarders =>
                \E db \in DbResults(lastResp.op) :
                    lastResp.body = Default(lastResp.op, lastResp.req.body,
                                            ErrMessage(lastResp.out), db)
          /\ lastResp.op = "health" => lastResp.body.status = "offline"
          /\ lastResp.op = "gateways" =>
                /\ lastResp.body.total_gateways = Len(gateways)
                /\ lastResp.body.connected = 0
          /\ lastResp.op = "rotate" => lastResp.body.status = "error"
          /\ lastResp.op \in {"cronList", "cronAdd", "cronToggle", "cronDelete"} =>
                lastResp.body = cronTrace[Len(cronTrace)].body

C11_Witness ==
    /\ lastResp.op = "agentsRun"
    /\ lastResp.out.kind = "status"
    /\ lastResp.status = 200
    /\ lastResp.body.agent = "unknown"
    /\ Contains(lastResp.body.result, "Sentinel API error 503: down")
    /\ received = 2

\* C12: every POST terminal request, whatever the command in its body
\* (a body without a command included) and whatever the outcome of the
\* outbound call, is answered with HTTP 200 and a body holding a textual
\* `output`; no request is answered with an HTTP error or left unanswered.
C12_TerminalAlwaysAnswers ==
    /\ \A s \in Slots : reqs[s].op = "terminal" => reqs[s].pc = "awaiting"
    /\ lastResp.op = "terminal" =>
          /\ lastResp.status = 200
          /\ DOMAIN lastResp.body = {"output"}
          /\ lastResp.body.output \in STRING

\* What the code does: a terminal request whose body has a command is
\* answered with HTTP 200 and a textual output.
C12_CommandAnswered ==
    /\ \A s \in Slots :
          (reqs[s].op = "terminal" /\ "command" \in DOMAIN reqs[s].body)
             => reqs[s].pc = "awaiting"
    /\ lastResp.op = "terminal" =>
          /\ lastResp.status = 200
          /\ DOMAIN lastResp.body = {"output"}
          /\ lastResp.body.output \in STRING

\* the caller in some slot changes the array it holds in this step
CallerMutated == \E s \in Slots : reqs[s].pc = "holding" /\ reqs'[s].pc = "idle"

\* C13: what getAlerts, getCronJobs, getNodes and getGateways return is a
\* snapshot: no change a caller makes to the returned collection (adding,
\* removing or reordering elements) changes a collection of the store.
C13_ListsAreSnapshots ==
    [][CallerMutated => UNCHANGED <<alerts, cronJobs, nodes, gateways>>]_vars

\* What the code does: what getAlerts returns is a snapshot.
C13_AlertsListIsSnapshot ==
    [][\A s \in Slots :
          (reqs[s].pc = "holding" /\ reqs[s].op = "getAlerts" /\ reqs'[s].pc = "idle")
             => UNCHANGED <<alerts, cronJobs, nodes, gateways>>]_vars

\* the store is written, or one of its operations is logged, in this step
StoreTouched ==
    storeVars' # storeVars \/ inserted' # inserted \/ cronTrace' # cronTrace

\* C14: in every handler every access to the store happens after the
\* handler's outbound call has completed and inside one non-suspending step:
\* the step that issues the outbound call leaves the store alone; the store
\* is touched only by the step that takes one request from the end of its
\* outbound call to its response, and what that step writes is computed
\* from the store as it is in that step, whatever the other in-flight
\* requests did in the meantime.
C14_StoreAccessAfterCall ==
    [][/\ (\E s \in Slots : CallIssued(s)) =>
              UNCHANGED <<storeVars, inserted, cronTrace, lastResp>>
       /\ StoreTouched =>
              \E s \in Slots :
                 /\ reqs[s].pc = "awaiting" /\ reqs'[s].pc = "idle"
                 /\ lastResp'.slot = s /\ lastResp'.req = reqs[s]
                 /\ \A t \in Slots \ {s} : reqs'[t] = reqs[t]
                 /\ alerts' # alerts =>
                       LET e == lastResp'.added[1]
                       IN  /\ e.id = alertIdCounter
                           /\ alertIdCounter' = alertIdCounter + 1
                           /\ alerts' = IF Len(alerts) < AlertCap THEN Append(alerts, e)
                                        ELSE Append(SubSeq(alerts, 2, Len(alerts)), e)
                 /\ cronJobs' # cronJobs =>
                       LET e == cronTrace'[Len(cronTrace')]
                       IN  /\ e.before = cronJobs
                           /\ cronJobs' = CASE e.op = "add" -> Append(cronJobs, e.ret)
                                            [] e.op = "toggle" ->
                                                  toggleCronJob(cronJobs, e.id).cronJobs
                                            [] e.op = "delete" ->
                                                  deleteCronJob(cronJobs, e.id)]_vars

C14_Witness ==
    /\ lastResp.op = "ingest"
    /\ Len(alerts) = 1
    /\ \E s \in Slots : Awaiting(s, "cronAdd") /\ lastResp.slot # s
    /\ received = 2

\* C15: no two jobs of the cron collection have the same id: addCronJob
\* never stores a job whose generated id ("cron-" and the first 8 characters
\* of a random token) is the id of a job already in the collection.
C15_UniqueJobIds ==
    /\ \A i, j \in 1..Len(cronJobs) : i # j => cronJobs[i].id # cronJobs[j].id
    /\ \A k \in 1..Len(cronTrace) :
          cronTrace[k].op = "add" => ~HasJob(cronTrace[k].before, cronTrace[k].id)

\* What the code does: every generated id is "cron-" and 8 characters, and a
\* job is stored under its generated id whether or not a job has it already.
C15_GeneratedIdStored ==
    \A k \in 1..Len(cronTrace) :
        cronTrace[k].op = "add" =>
            /\ cronTrace[k].id \in CronIds
            /\ Len(cronTrace[k].id) = 13
            /\ After(k) = Append(cronTrace[k].before, cronTrace[k].ret)

\* the handlers that fall back to the cron and gateway collections
LocalFallback == {"cronList", "cronAdd", "cronToggle", "cronDelete", "gateways"}

\* the request in slot s is answered in this step
Answered(s) == reqs[s].pc = "awaiting" /\ reqs'[s].pc = "idle" /\ lastResp'.slot = s

\* C16: the cron handlers and GET gateways touch the store only on the
\* failure path: when the outbound call succeeds the alert, cron, node and
\* gateway collections are unchanged, no store operation is called, and the
\* response of GET cron, POST cron, PATCH toggle and GET gateways is the
\* remote body (so GET cron does not list a job created locally during an
\* outage); when the outbound call fails a cron handler calls the store.
C16_SuccessLeavesStoreAlone ==
    [][\A s \in Slots :
          (Answered(s) /\ reqs[s].op \in LocalFallback) =>
              IF lastResp'.out.kind = "ok"
              THEN /\ UNCHANGED <<storeVars, inserted, cronTrace>>
                   /\ lastResp'.status = 200
                   /\ reqs[s].op # "cronDelete" => lastResp'.body = lastResp'.out.data
              ELSE reqs[s].op # "gateways" => Len(cronTrace') = Len(cronTrace) + 1]_vars

C16_Witness ==
    /\ Len(cronJobs) = 1
    /\ lastResp.op = "cronList"
    /\ lastResp.out.kind = "ok"
    /\ lastResp.body = RemoteReply
    /\ Len(cronTrace) = 1 /\ cronTrace[1].op = "add"

\* process.env.APP_API_KEY ?? "", as a getApiKey call reads it in this step
Configured == IF envApiKey \in {Undefined, Null} THEN "" ELSE envApiKey

\* C17: the configured credential is read once: once a getApiKey call has
\* filled the cache, every later getApiKey call returns the cached value,
\* whatever the configuration is by then and also when the cached value is
\* the empty string, until refreshApiKey empties the cache; the first
\* getApiKey call on an empty cache reads the configuration.
C17_CredentialReadOnce ==
    [][\A s \in Slots :
          CallIssued(s) =>
              /\ reqs'[s].key = IF cachedApiKey # Null THEN cachedApiKey ELSE Configured
              /\ cachedApiKey' = reqs'[s].key]_vars

\* What the code does: a cached credential other than the empty string is
\* returned until refreshApiKey; on an empty cache and on a cached empty
\* string the configuration is read.
C17_NonEmptyCredentialReadOnce ==
    [][\A s \in Slots :
          CallIssued(s) =>
              /\ reqs'[s].key = IF cachedApiKey \notin {Null, ""} THEN cachedApiKey
                                ELSE Configured
              /\ cachedApiKey' = reqs'[s].key]_vars

\* the rotation in slot s is answered in this step, its outbound call having
\* had an outcome of kind `kind`
RotationAnswered(s, kind) ==
    Awaiting(s, "rotate") /\ Answered(s) /\ lastResp'.out.kind = kind

\* C18: a cached credential is invalidated only by a rotation whose outbound
\* call succeeded; a rotation whose outbound call failed leaves the cache
\* unchanged and answers HTTP 200 with status "error"; no other handler
\* invalidates or changes a cached credential (a handler may fill the empty
\* cache).
C18_OnlyRotationInvalidates ==
    [][/\ (cachedApiKey # Null /\ cachedApiKey' # cachedApiKey) =>
              /\ cachedApiKey' = Null
              /\ \E s \in Slots : RotationAnswered(s, "ok")
       /\ \A s \in Slots :
              (Awaiting(s, "rotate") /\ Answered(s) /\ lastResp'.out.kind # "ok") =>
                  /\ cachedApiKey' = cachedApiKey
                  /\ lastResp'.status = 200
                  /\ lastResp'.body.status = "error"]_vars

\* What the code does: as C18, but every outbound call replaces a cached
\* empty string by the configured credential.
C18_OnlyRotationInvalidatesNonEmpty ==
    [][/\ (cachedApiKey \notin {Null, ""} /\ cachedApiKey' # cachedApiKey) =>
              /\ cachedApiKey' = Null
              /\ \E s \in Slots : RotationAnswered(s, "ok")
       /\ (cachedApiKey = "" /\ cachedApiKey' # cachedApiKey) =>
              \/ cachedApiKey' = Null /\ \E s \in Slots : RotationAnswered(s, "ok")
              \/ cachedApiKey' = Configured /\ \E s \in Slots : CallIssued(s)
       /\ \A s \in Slots :
              (Awaiting(s, "rotate") /\ Answered(s) /\ lastResp'.out.kind # "ok") =>
                  /\ cachedApiKey' = cachedApiKey
                  /\ lastResp'.status = 200
                  /\ lastResp'.body.status = "error"]_vars

\* a caller's updateGatewayStatus call returns in this step
GatewayUpdated ==
    reqs' = reqs /\ received' # received /\ lastResp'.op = "updateGatewayStatus"

\* the fallback of a PATCH toggle calls toggleCronJob in this step
ToggledLocally ==
    Len(cronTrace') = Len(cronTrace) + 1 /\ cronTrace'[Len(cronTrace')].op = "toggle"

\* C19: toggleCronJob(id) and updateGatewayStatus(id, status) with an id
\* that no entry has return the not-found signal (null) and leave every
\* collection of the store unchanged; the PATCH cron/:id/toggle handler then
\* answers, on its failure path, HTTP 200 with a body that has an `error`
\* field.
C19_UnknownIdIsNotFound ==
    [][/\ (ToggledLocally /\ ~HasJob(cronJobs, cronTrace'[Len(cronTrace')].id)) =>
              /\ cronTrace'[Len(cronTrace')].ret = Null
              /\ UNCHANGED storeVars
              /\ lastResp'.op = "cronToggle"
              /\ lastResp'.out.kind \in {"conn", "status"}
              /\ lastResp'.status = 200
              /\ "error" \in DOMAIN lastResp'.body
       /\ (GatewayUpdated /\ FindGateway(gateways, lastResp'.req.id) = 0) =>
              /\ ~lastResp'.body.found
              /\ lastResp'.body.gw = Null
              /\ UNCHANGED storeVars]_vars

C19_Witness ==
    /\ lastResp.op = "updateGatewayStatus"
    /\ lastResp.req.id = "gw-email"
    /\ ~lastResp.body.found
    /\ Len(cronTrace) = 2
    /\ cronTrace[2].op = "toggle"
    /\ Len(cronTrace[2].before) = 1
    /\ ~HasJob(cronTrace[2].before, cronTrace[2].id)
    /\ cronTrace[2].ret = Null
    /\ cronTrace[2].body = [error |-> "Job not found"]
    /\ cronJobs = cronTrace[2].before

\* the fields of a cron job that are fixed at its creation
FixedFields == {"id", "name", "schedule", "task", "squad", "last_run", "next_run"}

\* C20: after a cron job is created no operation changes its id, name,
\* schedule, task, squad, last_run or next_run: addCronJob appends and
\* leaves the existing jobs as they are, toggleCronJob changes only the
\* `enabled` flag of the one job it names and leaves every other job
\* unchanged, deleteCronJob(id) removes exactly the jobs with that id and
\* keeps the others in their insertion order, and nothing else changes the
\* cron collection.
C20_JobFieldsFixed ==
    [][IF Len(cronTrace') = Len(cronTrace) + 1
       THEN LET e == cronTrace'[Len(cronTrace')]
                at == FindJob(cronJobs, e.id)
            IN  CASE e.op = "list" -> cronJobs' = cronJobs
                  [] e.op = "add" ->
                        /\ Len(cronJobs') = Len(cronJobs) + 1
                        /\ \A i \in 1..Len(cronJobs) : cronJobs'[i] = cronJobs[i]
                  [] e.op = "toggle" ->
                        /\ Len(cronJobs') = Len(cronJobs)
                        /\ \A i \in 1..Len(cronJobs) :
                              IF i = at
                              THEN /\ \A f \in FixedFields : cronJobs'[i][f] = cronJobs[i][f]
                                   /\ cronJobs'[i].enabled = ~cronJobs[i].enabled
                                   /\ DOMAIN cronJobs'[i] = DOMAIN cronJobs[i]
                              ELSE cronJobs'[i] = cronJobs[i]
                  [] e.op = "delete" ->
                        cronJobs' = SelectSeq(cronJobs, LAMBDA j : j.id # e.id)
       ELSE cronJobs' = cronJobs]_vars

C20_Witness ==
    /\ Len(cronTrace) = 4
    /\ cronTrace[1].op = "add" /\ cronTrace[2].op = "add"
    /\ cronTrace[3].op = "toggle" /\ cronTrace[4].op = "delete"
    /\ cronTrace[1].id # cronTrace[2].id
    /\ cronTrace[3].id = cronTrace[2].id
    /\ cronTrace[4].id = cronTrace[1].id
    /\ cronJobs = <<[cronTrace[2].ret EXCEPT !.enabled = FALSE]>>

\* C21: a stored alert is never changed and leaves the collection only by
\* cap eviction: every step either leaves the alerts as they are, or is an
\* addAlert that appends its new entry behind the unchanged stored ones, the
\* oldest one being dropped only when the collection already held 500.
C21_StoredAlertsFixed ==
    [][\/ alerts' = alerts
       \/ /\ Len(inserted') = Len(inserted) + 1
          /\ alerts'[Len(alerts')] = inserted'[Len(inserted')]
          /\ IF Len(alerts) < 500
             THEN SubSeq(alerts', 1, Len(alerts') - 1) = alerts
             ELSE SubSeq(alerts', 1, Len(alerts') - 1) = SubSeq(alerts, 2, Len(alerts))]_vars

C21_Witness ==
    /\ Len(inserted) = AlertCap + 2
    /\ lastResp.op = "alerts"
    /\ lastResp.body = getAlerts(alerts)
    /\ \E i \in 1..(Len(alerts) - 1) :
          /\ alerts[i].verdict = "Pending"
          /\ alerts[i] = inserted[i + 2]
    /\ alerts[1] = inserted[3]

\* GET stats is answered in this step
StatsAnswered == received' # received /\ reqs' = reqs /\ lastResp'.op = "stats"

\* the number of entries of the collection `list` that satisfy Test
Count(list, Test(_)) == Cardinality({i \in DOMAIN list : Test(list[i])})

\* C22: whatever store operations came before, getStats returns the counts
\* of the current collections: total_alerts is the number of stored alerts
\* (at most 500), true_positives, false_positives and pending (verdict
\* "Pending" or "Unknown") count the alerts by verdict, active_cron_jobs the
\* enabled jobs, active_nodes the online nodes, active_gateways the connected
\* gateways; and getStats changes no collection.
C22_StatsRecomputed ==
    [][StatsAnswered =>
          LET stats == lastResp'.body
          IN  /\ stats.total_alerts = Len(alerts) /\ stats.total_alerts <= 500
              /\ stats.true_positives = Count(alerts, LAMBDA a : a.verdict = "True Positive")
              /\ stats.false_positives = Count(alerts, LAMBDA a : a.verdict = "False Positive")
              /\ stats.pending = Count(alerts, LAMBDA a : a.verdict \in {"Pending", "Unknown"})
              /\ stats.active_cron_jobs = Count(cronJobs, LAMBDA j : j.enabled = TRUE)
              /\ stats.active_nodes = Count(nodes, LAMBDA n : n.status = "online")
              /\ stats.active_gateways = Count(gateways, LAMBDA g : g.status = "connected")
              /\ UNCHANGED storeVars]_vars

C22_Witness ==
    /\ lastResp.op = "stats"
    /\ lastResp.body.active_gateways = 1
    /\ lastResp.body.active_nodes = 1
    /\ lastResp.body.total_alerts = 1
    /\ lastResp.body.true_positives + lastResp.body.pending = 1

\* the handlers that answer from the store or from the command text alone
Callless(resp) ==
    \/ resp.op \in {"stats", "alerts", "nodes"}
    \/ resp.op = "terminal" /\ Route(Command(resp.req.body)) = "analyze"

\* C23: a request causes at most one outbound call: a request that awaits
\* its call has issued exactly one, the completion of that call, failures of
\* both kinds included, ends the request with its response in the same step
\* (no second call), and GET stats, GET alerts, GET nodes and the terminal
\* command "/analyze <id>" are answered without any outbound call.
C23_AtMostOneCall ==
    [][/\ \A s \in Slots :
             /\ reqs'[s].calls <= 1
             /\ reqs'[s].pc = "awaiting" => reqs'[s].calls = 1
             /\ (reqs[s].pc = "awaiting" /\ reqs'[s] # reqs[s]) =>
                   /\ reqs'[s].pc = "idle"
                   /\ lastResp'.slot = s /\ lastResp'.req = reqs[s]
                   /\ lastResp'.out.kind \in {"ok", "status", "conn"}
       /\ lastResp'.req.calls <= 1
       /\ Callless(lastResp') => (lastResp'.req.calls = 0 /\ lastResp'.out = NoOutcome)]_vars

C23_Witness ==
    /\ lastResp.op = "terminal"
    /\ Route(Command(lastResp.req.body)) = "scan"
    /\ lastResp.out.kind = "status"
    /\ lastResp.req.calls = 1
    /\ lastResp.body.output = "Scan failed: Sentinel API error 503: down"
    /\ \E s \in Slots : reqs[s].pc = "awaiting" /\ reqs[s].op = "cronToggle"

\* C24: when its outbound call completes, every request is eventually
\* answered, whatever happens to the request on the other connection: a
\* request received on the first connection leaves it again.
C24_EveryRequestAnswered ==
    (reqs[1].pc # "idle") ~> (reqs[1].pc = "idle")

\* What the code does: a request that reached its outbound call is eventually
\* answered when the call completes, even if the call of the other
\* connection never does.
C24_CalledRequestAnswered ==
    (reqs[1].pc = "awaiting") ~> (reqs[1].pc = "idle")

\* What the code does: a response to the request of a connection is sent by
\* the step that completes the outbound call of that request and by no other
\* step, so a request whose call never completes is never answered.
C24_AnsweredOnCompletion ==
    [][\A s \in Slots :
          (reqs[s].pc = "awaiting" /\ reqs'[s].pc # "awaiting") =>
             /\ (FwdOkOf(s) \/ FwdFailOf(s))
             /\ lastResp'.slot = s /\ lastResp'.req = reqs[s]
             /\ \A t \in Slots \ {s} : reqs'[t] = reqs[t]]_vars

\* the request in slot s reaches its outbound call in this step
Called(s) == reqs[s].pc = "idle" /\ reqs'[s].pc = "awaiting"

\* C25: the terminal handler dispatches on the command text alone: the
\* command "/status", and no other, issues the health call; a command that
\* starts with "/analyze " is answered without an outbound call; a command
\* that starts with "/scan " goes to squad "red" as a scan task on its target;
\* every other command goes unchanged as the task to squad "blue"; and no
\* step of a terminal request changes the store.
C25_TerminalDispatch ==
    [][/\ \A s \in Slots : (Called(s) /\ reqs'[s].op = "terminal") =>
             LET command == reqs'[s].body.command
                 call == reqs'[s].call
             IN  /\ ~StartsWith(command, "/analyze ")
                 /\ (call = Target("health", NoBody, "")) <=> (command = "/status")
                 /\ command # "/status" =>
                       /\ call.path = "/v1/agents/run" /\ call.method = "POST"
                       /\ IF StartsWith(command, "/scan ")
                          THEN call.body = [squad |-> "red",
                                            task |-> "Security scan on target: "
                                                     \o Trim(SubSeq(command, 7, Len(command)))]
                          ELSE call.body = [squad |-> "blue", task |-> command]
       /\ (received' # received /\ reqs' = reqs /\ lastResp'.op = "terminal") =>
             /\ StartsWith(lastResp'.req.body.command, "/analyze ")
             /\ lastResp'.req.calls = 0 /\ lastResp'.out = NoOutcome
             /\ UNCHANGED storeVars
       /\ (\E s \in Slots : "terminal" \in {reqs[s].op, reqs'[s].op} /\ reqs'[s] # reqs[s])
             => UNCHANGED storeVars]_vars

C25_Witness ==
    /\ reqs[1].pc = "awaiting" /\ reqs[1].body.command = "/scan host1 "
    /\ reqs[1].call.body.squad = "red"
    /\ reqs[1].call.body.task = "Security scan on target: host1"
    /\ reqs[2].pc = "awaiting" /\ reqs[2].body.command = "/status "
    /\ reqs[2].call.body = [squad |-> "blue", task |-> "/status "]
    /\ lastResp.op = "terminal" /\ lastResp.req.calls = 0
    /\ lastResp.body.output = "Queuing analysis for alert: A-7. Use the Alert Feed to submit full alert data."

\* the error message of a non-success status: the status code and an
\* excerpt of the response text of at most 200 characters
CarriesStatusAndExcerpt(message, out) ==
    LET prefix == "Sentinel API error " \o out.status \o ": "
        excerpt == SubSeq(message, Len(prefix) + 1, Len(message))
    IN  /\ StartsWith(message, prefix)
        /\ Len(excerpt) = Min(Len(out.text), 200)
        /\ StartsWith(out.text, excerpt)

\* C26 as stated: the outcome of an outbound call is one of three: a success
\* status returns the parsed body (the ingest handler answers 200 with it),
\* a non-success status fails with the status code and an excerpt of at most
\* 200 characters, a connection failure fails with another error.
C26_ThreeOutcomes ==
    lastResp.op = "ingest" =>
       LET out == lastResp.out
       IN  /\ out.status = "200" => (lastResp.status = 200 /\ lastResp.body = out.data)
           /\ (out.status # "200" /\ out.kind # "conn") =>
                 /\ lastResp.status = 500
                 /\ CarriesStatusAndExcerpt(lastResp.body.error, out)
           /\ out.kind = "conn" =>
                 /\ lastResp.status = 500
                 /\ ~StartsWith(lastResp.body.error, "Sentinel API error ")

\* C26 as amended: the outcome of an outbound call is exactly one of four.
\* A success status with a JSON body returns the parsed body; a success
\* status whose body is not JSON fails with the error of the parser; a
\* non-success status fails with an error that carries the status code and
\* an excerpt of the response text of at most 200 characters ("Unknown
\* error" when the text cannot be read); a connection failure fails with the
\* error of fetch.  The three error messages are pairwise distinct.
C26_FourOutcomes ==
    lastResp.op = "ingest" =>
       LET out == lastResp.out
       IN  /\ out.kind \in {"ok", "parse", "status", "conn"}
           /\ out.kind \in {"ok", "parse"} <=> out.status = "200"
           /\ out.kind = "ok" => (lastResp.status = 200 /\ lastResp.body = out.data)
           /\ out.kind # "ok" => lastResp.status = 500
           /\ out.kind = "parse" =>
                 /\ lastResp.body.error = SyntaxMessage
                 /\ ~StartsWith(lastResp.body.error, "Sentinel API error ")
           /\ out.kind = "status" =>
                 /\ CarriesStatusAndExcerpt(lastResp.body.error, out)
                 /\ out.status = "404" => out.text = "Unknown error"
           /\ out.kind = "conn" =>
                 /\ ~StartsWith(lastResp.body.error, "Sentinel API error ")
                 /\ lastResp.body.error # SyntaxMessage

C26_Witness ==
    /\ lastResp.op = "ingest"
    /\ lastResp.out.kind = "parse"
    /\ lastResp.status = 500
    /\ Len(alerts) = 2
    /\ alerts[1].summary =
          "Submission error: Sentinel API error 503: " \o SubSeq(LongText, 1, 200)
    /\ alerts[2].summary = "Submission error: " \o SyntaxMessage

\* the handlers whose catch branch puts err.message into the response, and
\* the fields that hold it
MessageOps == {"agentsRun", "skillsGenerate", "gatewaysTest", "settingsPost",
               "providersIntegrationsTest", "rotate", "terminal"}
TextFields == {"result", "message", "error", "output"}

\* the body of a response with the error message of its outbound call blanked
Unmessaged(resp) ==
    IF resp.op \in MessageOps
    THEN [f \in DOMAIN resp.body |->
             IF f \in TextFields
             THEN Replace(resp.body[f], ErrMessage(resp.out), "<message>")
             ELSE resp.body[f]]
    ELSE resp.body

\* the catch branches that call the cron store
CronFallback == {"cronList", "cronAdd", "cronToggle", "cronDelete"}

\* This step answers a failed request of a handler other than ingest, and the
\* response before it answered the same request (handler, body, route
\* parameter, database result) failed in the other way.
FailedBothWays ==
    /\ lastResp'.out.kind \in {"conn", "status"}
    /\ lastResp.out.kind \in {"conn", "status"}
    /\ lastResp'.out.kind # lastResp.out.kind
    /\ lastResp'.op = lastResp.op
    /\ lastResp'.op # "ingest"
    /\ lastResp'.req.body = lastResp.req.body
    /\ lastResp'.req.id = lastResp.req.id
    /\ lastResp'.op \in {"onboarding", "onboardingComplete"} =>
          \E db \in DbResults(lastResp.op) :
             /\ lastResp.body = Default(lastResp.op, lastResp.req.body, "", db)
             /\ lastResp'.body = Default(lastResp.op, lastResp.req.body, "", db)

\* C27: for every handler other than ingest a request whose outbound call
\* fails with a non-success status and the same request whose call fails at
\* the connection get the same HTTP status and a body of the same shape
\* (the same body once the error message is blanked, when the store was the
\* same), and cause the same store operation with the same arguments; the
\* alerts, nodes and gateways are left alone.
C27_FailureKindsAlike ==
    [][FailedBothWays =>
          /\ lastResp'.status = lastResp.status
          /\ DOMAIN lastResp'.body = DOMAIN lastResp.body
          /\ cronJobs' = cronJobs => Unmessaged(lastResp') = Unmessaged(lastResp)
          /\ UNCHANGED <<alerts, alertIdCounter, fleetVars, inserted>>
          /\ IF lastResp.op \in CronFallback
             THEN /\ Len(cronTrace') = Len(cronTrace) + 1
                  /\ cronTrace'[Len(cronTrace')].op = cronTrace[Len(cronTrace)].op
                  /\ cronTrace'[Len(cronTrace')].id = cronTrace[Len(cronTrace)].id
             ELSE UNCHANGED <<cronJobs, cronTrace>>]_vars

C27_Witness ==
    /\ lastResp.op = "cronDelete"
    /\ lastResp.out.kind = "conn"
    /\ lastResp.status = 200
    /\ lastResp.body = [status |-> "deleted"]
    /\ received = 2
    /\ Len(cronTrace) = 2
    /\ cronTrace[1].op = "delete" /\ cronTrace[2].op = "delete"
    /\ cronTrace[1].id = cronTrace[2].id
    /\ cronTrace[1].body = lastResp.body /\ cronTrace[1].status = lastResp.status
    /\ \A s \in Slots : reqs[s].pc = "idle"

\* This step answers an ingest, the response before it answered an ingest of
\* the same request body, and one of the two outbound calls succeeded while
\* the other failed.
IngestedBothWays ==
    /\ lastResp.op = "ingest" /\ lastResp'.op = "ingest"
    /\ lastResp'.req.body = lastResp.req.body
    /\ {lastResp.out.kind, lastResp'.out.kind} \in {{"ok", "conn"}, {"ok", "status"}}

\* the entry of the successful one of the two ingests, and of the failed one
OkEntry == IF lastResp.out.kind = "ok" THEN lastResp.added[1] ELSE lastResp'.added[1]
ErrEntry == IF lastResp.out.kind = "ok" THEN lastResp'.added[1] ELSE lastResp.added[1]

\* C28 as stated: the entry of a successful ingest and the entry of a failed
\* ingest of the same request body have the same risk_level, source,
\* alert_id and task_id.
C28_OnlyVerdictAndSummaryDiffer ==
    [][IngestedBothWays =>
          /\ OkEntry.risk_level = ErrEntry.risk_level
          /\ OkEntry.source = ErrEntry.source
          /\ OkEntry.alert_id = ErrEntry.alert_id
          /\ OkEntry.task_id = ErrEntry.task_id]_vars

\* C28 as amended: the two entries have the same source (the source of the
\* request, "custom" without one) and, when the request has an alert_id, the
\* same alert_id (without one each gets "ALERT-<time>" of its own insertion).
\* They differ in verdict and summary, and also in risk_level and task_id:
\* the failed entry has risk_level "Unknown" and no task_id, the successful
\* one the remote risk_level ("Medium" without one) and the remote task_id.
C28_SourceAndAlertIdShared ==
    [][IngestedBothWays =>
          LET body == lastResp.req.body
              data == IF lastResp.out.kind = "ok" THEN lastResp.out.data
                      ELSE lastResp'.out.data
          IN  /\ OkEntry.source = ErrEntry.source
              /\ OkEntry.source = IF body.source \in {Undefined, ""} THEN "custom"
                                  ELSE body.source
              /\ body.alert_id \notin {Undefined, ""} =>
                    (OkEntry.alert_id = body.alert_id /\ ErrEntry.alert_id = body.alert_id)
              /\ body.alert_id \in {Undefined, ""} =>
                    /\ "T" \o SubSeq(OkEntry.alert_id, 7, Len(OkEntry.alert_id)) \o "Z"
                          = OkEntry.timestamp
                    /\ "T" \o SubSeq(ErrEntry.alert_id, 7, Len(ErrEntry.alert_id)) \o "Z"
                          = ErrEntry.timestamp
              /\ ErrEntry.verdict = "Error" /\ OkEntry.verdict # "Error"
              /\ StartsWith(ErrEntry.summary, "Submission error: ")
              /\ ErrEntry.risk_level = "Unknown"
              /\ OkEntry.risk_level = IF data.risk_level \in {Undefined, ""} THEN "Medium"
                                      ELSE data.risk_level
              /\ ErrEntry.task_id = Undefined
              /\ OkEntry.task_id = data.task_id
              /\ OkEntry.id # ErrEntry.id]_vars

C28_Witness ==
    /\ lastResp.op = "ingest" /\ lastResp.out.kind = "status"
    /\ lastResp.req.body = IngestBody("A1", "splunk")
    /\ inserted = <<alerts[1], lastResp.added[1]>>
    /\ alerts[1].alert_id = "A1" /\ alerts[1].source = "splunk"
    /\ alerts[1].verdict = "Pending" /\ alerts[1].task_id = "T1"
    /\ alerts[1].risk_level = "Medium"
    /\ alerts[2].verdict = "Error" /\ alerts[2].risk_level = "Unknown"
    /\ alerts[2].alert_id = "A1" /\ alerts[2].source = "splunk"
    /\ alerts[2].task_id = Undefined

\* the positions of the jobs of `jobs` whose id is not `id`
Others(jobs, id) == {i \in DOMAIN jobs : jobs[i].id # id}

\* C29: DELETE cron/:id is answered 200 {status: "deleted"} for every id and
\* both outcomes of the outbound call; when the call succeeds the local
\* collection is unchanged, so a job created locally stays; when it fails
\* the jobs with that id are removed and the others stay in their order, and
\* nothing changes when no job has the id; no other step removes a job.
C29_DeleteAlwaysDeleted ==
    [][/\ \A s \in Slots : (Answered(s) /\ reqs[s].op = "cronDelete") =>
             /\ lastResp'.status = 200
             /\ lastResp'.body = [status |-> "deleted"]
             /\ lastResp'.out.kind = "ok" => cronJobs' = cronJobs
             /\ lastResp'.out.kind # "ok" =>
                   /\ ~HasJob(cronJobs', reqs[s].id)
                   /\ Len(cronJobs') = Cardinality(Others(cronJobs, reqs[s].id))
                   /\ \A i \in Others(cronJobs, reqs[s].id) :
                         cronJobs'[Cardinality({k \in Others(cronJobs, reqs[s].id) : k <= i})]
                            = cronJobs[i]
                   /\ ~HasJob(cronJobs, reqs[s].id) => cronJobs' = cronJobs
       /\ Len(cronJobs') < Len(cronJobs) =>
             \E s \in Slots : /\ Answered(s) /\ reqs[s].op = "cronDelete"
                               /\ lastResp'.out.kind # "ok"]_vars

C29_Witness ==
    /\ lastResp.op = "cronDelete"
    /\ lastResp.out.kind = "ok"
    /\ lastResp.status = 200 /\ lastResp.body = [status |-> "deleted"]
    /\ Len(cronTrace) = 1 /\ cronTrace[1].op = "add"
    /\ lastResp.req.id = cronTrace[1].ret.id
    /\ cronJobs = <<cronTrace[1].ret>>

\* C30: no sequence of HTTP requests changes the nodes or the gateways: the
\* nodes are the one seeded online entry, the gateways the three seeded
\* entries, all disconnected and disabled; GET stats reports 1 active node
\* and 0 active gateways, GET nodes lists the seeded node, and the fallback
\* of GET gateways reports 3 gateways, none connected.
C30_FleetNeverChanges ==
    /\ Len(nodes) = 1
    /\ nodes[1].id = "node-gateway" /\ nodes[1].status = "online"
    /\ [i \in 1..Len(gateways) |-> gateways[i].id] = <<"gw-telegram", "gw-discord", "gw-slack">>
    /\ \A i \in 1..Len(gateways) :
          gateways[i].status = "disconnected" /\ gateways[i].enabled = FALSE
    /\ lastResp.op = "stats" =>
          (lastResp.body.active_nodes = 1 /\ lastResp.body.active_gateways = 0)
    /\ lastResp.op = "nodes" =>
          (Len(lastResp.body) = 1 /\ lastResp.body[1].id = "node-gateway")
    /\ (lastResp.op = "gateways" /\ FailedOver) =>
          /\ lastResp.body.total_gateways = 3
          /\ lastResp.body.connected = 0
          /\ \A i \in 1..3 : lastResp.body.gateways[i].connected = FALSE

C30_Witness ==
    /\ lastResp.op = "gateways" /\ FailedOver
    /\ lastResp.body.total_gateways = 3
    /\ received = 2
    /\ Len(cronJobs) = 1
    /\ getStats(alerts, cronJobs, nodes, gateways).active_nodes = 1
    /\ getStats(alerts, cronJobs, nodes, gateways).active_gateways = 0

====
